---- MODULE Spec2Model ----
(***************************************************************************)
(* Hotels of Athens: the data step (scripts/fetch-hotels.js) and the site  *)
(* generator (scripts/generate.js).                                        *)
(*                                                                         *)
(* Strings.  A string the programs take apart or search (a hotel name, a   *)
(* slug, an identifier, a template, a page) is a sequence of atoms.  An    *)
(* atom is a one-character string, a placeholder token such as "{{NAME}}"  *)
(* or a chunk of literal markup that holds no placeholder.  Numbers that   *)
(* are interpolated into markup appear as their decimal text.  Markup is   *)
(* abridged to the atoms that carry data or delimit it, and glyphs outside *)
(* ASCII are written in ASCII ("*" and "o" for the two star glyphs, EUR    *)
(* for the euro sign).  No substituted value holds a "$" pattern of        *)
(* String.replace.                                                         *)
(***************************************************************************)
EXTENDS Integers, Sequences, FiniteSets, TLC

(***************************************************************************)
(* Bounds of the model.                                                    *)
(***************************************************************************)
\* longest neighborhoods catalog the data step is run on
MaxHoods == 2
\* the calendar days a run can fall on are 1..MaxDay
MaxDay == 2

(***************************************************************************)
(* Characters and the String methods the programs use.                     *)
(***************************************************************************)
UpperCase == <<"A", "B", "C", "D", "E", "F", "G", "H", "I", "J", "K", "L", "M",
               "N", "O", "P", "Q", "R", "S", "T", "U", "V", "W", "X", "Y", "Z">>
LowerCase == <<"a", "b", "c", "d", "e", "f", "g", "h", "i", "j", "k", "l", "m",
               "n", "o", "p", "q", "r", "s", "t", "u", "v", "w", "x", "y", "z">>
Digits == {"0", "1", "2", "3", "4", "5", "6", "7", "8", "9"}
\* the characters the regular expression class \s matches
WhiteSpace == {" ", "\t", "\n"}

Range(s) == {s[i] : i \in DOMAIN s}

\* String.prototype.toLowerCase, one character
LowerChar(c) ==
  IF \E i \in DOMAIN UpperCase : UpperCase[i] = c
    THEN LowerCase[CHOOSE i \in DOMAIN UpperCase : UpperCase[i] = c]
    ELSE c

\* String.prototype.toLowerCase
toLowerCase(s) == [i \in DOMAIN s |-> LowerChar(s[i])]

\* s.replace(/[^...]/g, ''): the characters of s that are in Keep
RemoveNotIn(s, Keep) == SelectSeq(s, LAMBDA c : c \in Keep)

\* s.replace(/X+/g, r): every maximal run of characters of Class becomes r
ReplaceRuns(s, Class, r) ==
  LET out[i \in 0..Len(s)] ==
        IF i = 0 THEN <<>>
        ELSE IF s[i] \notin Class THEN Append(out[i - 1], s[i])
        ELSE IF i > 1 /\ s[i - 1] \in Class THEN out[i - 1]
        ELSE Append(out[i - 1], r)
  IN  out[Len(s)]

\* String.prototype.trim
trim(s) ==
  LET Ink == {i \in DOMAIN s : s[i] \notin WhiteSpace}
  IN  IF Ink = {} THEN <<>>
      ELSE SubSeq(s, CHOOSE i \in Ink : \A j \in Ink : i <= j,
                     CHOOSE i \in Ink : \A j \in Ink : j <= i)

\* the places where pat occurs in s
Occurrences(s, pat) ==
  {i \in 1..(Len(s) - Len(pat) + 1) : SubSeq(s, i, i + Len(pat) - 1) = pat}

\* s.replace(pat, rep) with a string pattern: the first occurrence only
ReplaceFirstSub(s, pat, rep) ==
  IF Occurrences(s, pat) = {} THEN s
  ELSE LET i == CHOOSE x \in Occurrences(s, pat) :
                   \A y \in Occurrences(s, pat) : x <= y
       IN  SubSeq(s, 1, i - 1) \o rep \o SubSeq(s, i + Len(pat), Len(s))

\* the suffix the slug of every hotel carries
AthensSuffix == <<"-", "a", "t", "h", "e", "n", "s">>

\* what the second replace of generateSlug does to its input
SlugSpaces(s) == ReplaceRuns(s, WhiteSpace, "-")

\* generateSlug(name)
generateSlug(name) ==
  trim(ReplaceRuns(
         SlugSpaces(
           RemoveNotIn(toLowerCase(name),
                       Range(LowerCase) \cup Digits \cup WhiteSpace \cup {"-"})),
         {"-"}, "-"))
  \o AthensSuffix

(***************************************************************************)
(* The curated seed dataset, getSeedHotels().                              *)
(***************************************************************************)
SeedPlaka ==
  <<
   [name |-> <<"E", "l", "e", "c", "t", "r", "a", " ", "P", "a", "l", "a", "c", "e", " ", "A", "t", "h", "e", "n", "s">>,
    starRating |-> 5, pricePerNight |-> 280, hasAcropolisView |-> TRUE,
    hasRooftopBar |-> TRUE, rooftopRating |-> 5,
    amenities |-> <<"Pool", "Spa", "Restaurant", "Gym">>,
    bestFor |-> <<"Luxury", "Couples", "Views">>,
    overview |-> "Iconic luxury hotel in the heart of Plaka with stunning rooftop pool and Acropolis views. Neoclassical elegance meets modern comfort.",
    pros |-> <<"Rooftop pool with Acropolis view", "Prime Plaka location", "Excellent service">>,
    cons |-> <<"Premium pricing", "Can be busy">>],
   [name |-> <<"P", "l", "a", "k", "a", " ", "H", "o", "t", "e", "l">>,
    starRating |-> 3, pricePerNight |-> 95, hasAcropolisView |-> TRUE,
    hasRooftopBar |-> FALSE, rooftopRating |-> 0,
    amenities |-> <<"Breakfast", "WiFi", "AC">>,
    bestFor |-> <<"Budget", "Location", "Solo travelers">>,
    overview |-> "Charming budget-friendly hotel in the heart of Plaka. Simple rooms with great location and friendly staff.",
    pros |-> <<"Unbeatable location", "Great value", "Rooftop terrace">>,
    cons |-> <<"Basic rooms", "No pool">>],
   [name |-> <<"A", "V", "A", " ", "H", "o", "t", "e", "l", " ", "A", "t", "h", "e", "n", "s">>,
    starRating |-> 4, pricePerNight |-> 180, hasAcropolisView |-> TRUE,
    hasRooftopBar |-> TRUE, rooftopRating |-> 4,
    amenities |-> <<"Restaurant", "Bar", "WiFi", "Concierge">>,
    bestFor |-> <<"Boutique", "Couples", "Design lovers">>,
    overview |-> "Stylish boutique hotel with contemporary design and Acropolis views. Perfect blend of comfort and aesthetics.",
    pros |-> <<"Beautiful design", "Great rooftop", "Quiet location">>,
    cons |-> <<"Small rooms", "Limited amenities">>],
   [name |-> <<"H", "e", "r", "o", "d", "i", "o", "n", " ", "H", "o", "t", "e", "l">>,
    starRating |-> 4, pricePerNight |-> 165, hasAcropolisView |-> TRUE,
    hasRooftopBar |-> TRUE, rooftopRating |-> 4,
    amenities |-> <<"Restaurant", "Bar", "Garden", "WiFi">>,
    bestFor |-> <<"Families", "Couples", "History buffs">>,
    overview |-> "Elegant hotel at the foot of the Acropolis with beautiful garden and rooftop restaurant.",
    pros |-> <<"Steps from Acropolis", "Lovely garden", "Family-friendly">>,
    cons |-> <<"Dated decor in some rooms">>],
   [name |-> <<"C", "e", "n", "t", "r", "a", "l", " ", "A", "t", "h", "e", "n", "s", " ", "H", "o", "t", "e", "l">>,
    starRating |-> 3, pricePerNight |-> 85, hasAcropolisView |-> FALSE,
    hasRooftopBar |-> FALSE, rooftopRating |-> 0,
    amenities |-> <<"Breakfast", "WiFi", "AC">>,
    bestFor |-> <<"Budget", "Solo travelers", "Short stays">>,
    overview |-> "Clean and comfortable budget option in central Plaka. No frills but excellent value.",
    pros |-> <<"Great price", "Central location", "Clean rooms">>,
    cons |-> <<"Basic amenities", "No views">>]
  >>

SeedMonastiraki ==
  <<
   [name |-> <<"A", " ", "f", "o", "r", " ", "A", "t", "h", "e", "n", "s">>,
    starRating |-> 4, pricePerNight |-> 150, hasAcropolisView |-> TRUE,
    hasRooftopBar |-> TRUE, rooftopRating |-> 5,
    amenities |-> <<"Rooftop Bar", "Restaurant", "WiFi">>,
    bestFor |-> <<"Nightlife", "Young travelers", "Views">>,
    overview |-> "Hip hotel right on Monastiraki Square with the best rooftop bar in Athens. Unbeatable Acropolis views.",
    pros |-> <<"Famous rooftop bar", "Perfect location", "Trendy vibe">>,
    cons |-> <<"Can be noisy", "Small rooms">>],
   [name |-> <<"3", "6", "0", " ", "D", "e", "g", "r", "e", "e", "s", " ", "H", "o", "t", "e", "l">>,
    starRating |-> 4, pricePerNight |-> 140, hasAcropolisView |-> TRUE,
    hasRooftopBar |-> TRUE, rooftopRating |-> 4,
    amenities |-> <<"Rooftop", "Bar", "WiFi", "Breakfast">>,
    bestFor |-> <<"Views", "Couples", "Photographers">>,
    overview |-> "Modern hotel with panoramic rooftop offering 360-degree views of Athens landmarks.",
    pros |-> <<"Incredible views", "Modern rooms", "Great breakfast">>,
    cons |-> <<"Street noise", "Busy area">>],
   [name |-> <<"A", "t", "t", "a", "l", "o", "s", " ", "H", "o", "t", "e", "l">>,
    starRating |-> 3, pricePerNight |-> 75, hasAcropolisView |-> TRUE,
    hasRooftopBar |-> FALSE, rooftopRating |-> 0,
    amenities |-> <<"Rooftop Terrace", "Breakfast", "WiFi">>,
    bestFor |-> <<"Budget", "Backpackers", "Location">>,
    overview |-> "Classic budget hotel with rooftop terrace views. Simple but clean with unbeatable location.",
    pros |-> <<"Budget-friendly", "Rooftop views", "Helpful staff">>,
    cons |-> <<"Basic rooms", "Old building">>],
   [name |-> <<"O", "&", "B", " ", "A", "t", "h", "e", "n", "s", " ", "B", "o", "u", "t", "i", "q", "u", "e", " ", "H", "o", "t", "e", "l">>,
    starRating |-> 4, pricePerNight |-> 170, hasAcropolisView |-> TRUE,
    hasRooftopBar |-> TRUE, rooftopRating |-> 4,
    amenities |-> <<"Spa", "Restaurant", "Bar", "Gym">>,
    bestFor |-> <<"Boutique", "Couples", "Wellness">>,
    overview |-> "Elegant boutique hotel combining neoclassical architecture with modern luxury.",
    pros |-> <<"Beautiful building", "Excellent spa", "Quiet rooms">>,
    cons |-> <<"Pricey restaurant">>],
   [name |-> <<"A", "t", "h", "e", "n", "s", " ", "B", "a", "c", "k", "p", "a", "c", "k", "e", "r", "s">>,
    starRating |-> 2, pricePerNight |-> 35, hasAcropolisView |-> TRUE,
    hasRooftopBar |-> TRUE, rooftopRating |-> 3,
    amenities |-> <<"Rooftop Bar", "Kitchen", "WiFi">>,
    bestFor |-> <<"Backpackers", "Budget", "Social">>,
    overview |-> "Legendary backpacker hostel with famous rooftop bar. Social atmosphere and great location.",
    pros |-> <<"Super cheap", "Great rooftop", "Social vibe">>,
    cons |-> <<"Hostel dorms", "Can be loud">>]
  >>

SeedSyntagma ==
  <<
   [name |-> <<"H", "o", "t", "e", "l", " ", "G", "r", "a", "n", "d", "e", " ", "B", "r", "e", "t", "a", "g", "n", "e">>,
    starRating |-> 5, pricePerNight |-> 450, hasAcropolisView |-> TRUE,
    hasRooftopBar |-> TRUE, rooftopRating |-> 5,
    amenities |-> <<"Pool", "Spa", "Restaurant", "Gym", "Concierge">>,
    bestFor |-> <<"Luxury", "Special occasions", "Business">>,
    overview |-> "Athens' most iconic luxury hotel overlooking Syntagma Square. Historic grandeur with world-class service.",
    pros |-> <<"Legendary hotel", "Stunning rooftop", "Impeccable service">>,
    cons |-> <<"Very expensive", "Formal atmosphere">>],
   [name |-> <<"K", "i", "n", "g", " ", "G", "e", "o", "r", "g", "e", " ", "A", "t", "h", "e", "n", "s">>,
    starRating |-> 5, pricePerNight |-> 380, hasAcropolisView |-> TRUE,
    hasRooftopBar |-> TRUE, rooftopRating |-> 5,
    amenities |-> <<"Restaurant", "Spa", "Butler Service", "Gym">>,
    bestFor |-> <<"Luxury", "Couples", "Fine dining">>,
    overview |-> "Boutique luxury hotel next to Grande Bretagne with intimate atmosphere and Tudor Hall restaurant.",
    pros |-> <<"Intimate luxury", "Amazing restaurant", "Personal service">>,
    cons |-> <<"Expensive", "Smaller than GB">>],
   [name |-> <<"N", "J", "V", " ", "A", "t", "h", "e", "n", "s", " ", "P", "l", "a", "z", "a">>,
    starRating |-> 5, pricePerNight |-> 220, hasAcropolisView |-> TRUE,
    hasRooftopBar |-> FALSE, rooftopRating |-> 0,
    amenities |-> <<"Restaurant", "Bar", "Gym", "Business Center">>,
    bestFor |-> <<"Business", "Central location", "Comfort">>,
    overview |-> "Modern luxury hotel on Syntagma Square. Excellent for business travelers and those wanting central location.",
    pros |-> <<"Prime location", "Modern rooms", "Good value luxury">>,
    cons |-> <<"Less character", "No rooftop">>],
   [name |-> <<"E", "l", "e", "c", "t", "r", "a", " ", "H", "o", "t", "e", "l", " ", "A", "t", "h", "e", "n", "s">>,
    starRating |-> 4, pricePerNight |-> 140, hasAcropolisView |-> FALSE,
    hasRooftopBar |-> TRUE, rooftopRating |-> 3,
    amenities |-> <<"Restaurant", "Bar", "WiFi", "Breakfast">>,
    bestFor |-> <<"Mid-range", "Shopping", "Convenience">>,
    overview |-> "Comfortable hotel on Ermou shopping street. Great base for exploring with rooftop restaurant.",
    pros |-> <<"Shopping location", "Good breakfast", "Friendly staff">>,
    cons |-> <<"No Acropolis view", "Busy street">>],
   [name |-> <<"A", "r", "e", "t", "h", "u", "s", "a", " ", "H", "o", "t", "e", "l">>,
    starRating |-> 3, pricePerNight |-> 90, hasAcropolisView |-> FALSE,
    hasRooftopBar |-> FALSE, rooftopRating |-> 0,
    amenities |-> <<"Breakfast", "WiFi", "AC">>,
    bestFor |-> <<"Budget", "Central", "Practical">>,
    overview |-> "Simple, clean hotel steps from Syntagma metro. Perfect budget base for sightseeing.",
    pros |-> <<"Great location", "Clean rooms", "Affordable">>,
    cons |-> <<"Basic amenities", "No views">>]
  >>

SeedKolonaki ==
  <<
   [name |-> <<"S", "t", ".", " ", "G", "e", "o", "r", "g", "e", " ", "L", "y", "c", "a", "b", "e", "t", "t", "u", "s">>,
    starRating |-> 5, pricePerNight |-> 250, hasAcropolisView |-> TRUE,
    hasRooftopBar |-> TRUE, rooftopRating |-> 5,
    amenities |-> <<"Pool", "Spa", "Restaurant", "Gym">>,
    bestFor |-> <<"Luxury", "Views", "Quiet">>,
    overview |-> "Hillside luxury hotel with stunning city views. Rooftop pool and Le Grand Balcon restaurant.",
    pros |-> <<"Amazing views", "Rooftop pool", "Quiet area">>,
    cons |-> <<"Uphill walk", "Away from sites">>],
   [name |-> <<"P", "e", "r", "i", "s", "c", "o", "p", "e", " ", "H", "o", "t", "e", "l">>,
    starRating |-> 4, pricePerNight |-> 160, hasAcropolisView |-> FALSE,
    hasRooftopBar |-> TRUE, rooftopRating |-> 3,
    amenities |-> <<"Rooftop", "Bar", "WiFi", "Breakfast">>,
    bestFor |-> <<"Design", "Boutique", "Hip">>,
    overview |-> "Design-forward boutique hotel in fashionable Kolonaki. Modern aesthetic with rooftop terrace.",
    pros |-> <<"Great design", "Trendy area", "Good breakfast">>,
    cons |-> <<"Small rooms", "No major views">>],
   [name |-> <<"C", "o", "c", "o", "-", "M", "a", "t", " ", "A", "t", "h", "e", "n", "s", " ", "B", "C">>,
    starRating |-> 4, pricePerNight |-> 180, hasAcropolisView |-> FALSE,
    hasRooftopBar |-> FALSE, rooftopRating |-> 0,
    amenities |-> <<"Spa", "Restaurant", "Gym", "Organic Bedding">>,
    bestFor |-> <<"Wellness", "Eco-conscious", "Sleep quality">>,
    overview |-> "Wellness-focused hotel featuring Coco-Mat's famous organic mattresses and sustainable design.",
    pros |-> <<"Best beds in Athens", "Eco-friendly", "Great spa">>,
    cons |-> <<"No rooftop", "Quiet area">>],
   [name |-> <<"K", "o", "l", "o", "n", "a", "k", "i", " ", "T", "o", "w", "n", "h", "o", "u", "s", "e">>,
    starRating |-> 3, pricePerNight |-> 120, hasAcropolisView |-> FALSE,
    hasRooftopBar |-> FALSE, rooftopRating |-> 0,
    amenities |-> <<"Breakfast", "WiFi", "Garden">>,
    bestFor |-> <<"Boutique", "Quiet", "Local feel">>,
    overview |-> "Charming small hotel in residential Kolonaki. Feels like staying at a friend's elegant home.",
    pros |-> <<"Charming atmosphere", "Quiet street", "Personal service">>,
    cons |-> <<"Limited amenities", "No views">>]
  >>

SeedPsyrri ==
  <<
   [name |-> <<"P", "a", "l", "l", "a", "s", " ", "A", "t", "h", "e", "n", "a", " ", "G", "r", "e", "c", "o", "t", "e", "l">>,
    starRating |-> 5, pricePerNight |-> 200, hasAcropolisView |-> FALSE,
    hasRooftopBar |-> TRUE, rooftopRating |-> 4,
    amenities |-> <<"Restaurant", "Bar", "Spa", "Art Gallery">>,
    bestFor |-> <<"Art lovers", "Design", "Nightlife">>,
    overview |-> "Art-focused luxury hotel with rotating exhibitions and vibrant design. In the heart of creative Psyrri.",
    pros |-> <<"Unique art concept", "Great location", "Excellent restaurant">>,
    cons |-> <<"No Acropolis view", "Can be noisy">>],
   [name |-> <<"A", "t", "h", "e", "n", "s", " ", "T", "i", "a", "r", "e", " ", "H", "o", "t", "e", "l">>,
    starRating |-> 4, pricePerNight |-> 130, hasAcropolisView |-> FALSE,
    hasRooftopBar |-> TRUE, rooftopRating |-> 3,
    amenities |-> <<"Rooftop", "Bar", "WiFi", "Breakfast">>,
    bestFor |-> <<"Nightlife", "Young travelers", "Value">>,
    overview |-> "Modern hotel in the heart of Athens' nightlife district. Great rooftop for evening drinks.",
    pros |-> <<"Nightlife location", "Modern rooms", "Good value">>,
    cons |-> <<"Street noise", "Basic breakfast">>],
   [name |-> <<"I", "n", "n", "A", "t", "h", "e", "n", "s">>,
    starRating |-> 4, pricePerNight |-> 110, hasAcropolisView |-> FALSE,
    hasRooftopBar |-> FALSE, rooftopRating |-> 0,
    amenities |-> <<"Restaurant", "Bar", "WiFi", "Breakfast">>,
    bestFor |-> <<"Foodies", "Local experience", "Value">>,
    overview |-> "Boutique hotel with excellent restaurant serving modern Greek cuisine. Perfect for food lovers.",
    pros |-> <<"Great restaurant", "Authentic area", "Good value">>,
    cons |-> <<"No rooftop", "Gritty neighborhood">>],
   [name |-> <<"A", "t", "h", "e", "n", "s", " ", "W", "a", "y", " ", "H", "o", "t", "e", "l">>,
    starRating |-> 3, pricePerNight |-> 80, hasAcropolisView |-> FALSE,
    hasRooftopBar |-> FALSE, rooftopRating |-> 0,
    amenities |-> <<"Breakfast", "WiFi", "AC">>,
    bestFor |-> <<"Budget", "Nightlife", "Young travelers">>,
    overview |-> "Simple budget hotel in vibrant Psyrri. Clean rooms and great location for exploring.",
    pros |-> <<"Budget-friendly", "Great location", "Clean">>,
    cons |-> <<"Basic rooms", "Noisy area">>]
  >>

SeedKoukaki ==
  <<
   [name |-> <<"H", "e", "r", "o", "d", "i", "o", "n", " ", "H", "o", "t", "e", "l">>,
    starRating |-> 4, pricePerNight |-> 155, hasAcropolisView |-> TRUE,
    hasRooftopBar |-> TRUE, rooftopRating |-> 4,
    amenities |-> <<"Restaurant", "Bar", "Garden", "WiFi">>,
    bestFor |-> <<"Families", "Quiet", "Acropolis access">>,
    overview |-> "Elegant hotel at the south slope of the Acropolis. Beautiful garden and easy access to sites.",
    pros |-> <<"Quiet location", "Garden setting", "Near Acropolis">>,
    cons |-> <<"Uphill walk to center">>],
   [name |-> <<"A", "c", "r", "o", "p", "o", "l", "i", "s", " ", "H", "i", "l", "l", " ", "H", "o", "t", "e", "l">>,
    starRating |-> 3, pricePerNight |-> 85, hasAcropolisView |-> TRUE,
    hasRooftopBar |-> FALSE, rooftopRating |-> 0,
    amenities |-> <<"Breakfast", "WiFi", "AC", "Terrace">>,
    bestFor |-> <<"Budget", "Views", "Local area">>,
    overview |-> "Great value hotel with Acropolis views in authentic Koukaki neighborhood.",
    pros |-> <<"Acropolis views", "Local neighborhood", "Great value">>,
    cons |-> <<"Basic amenities", "Uphill location">>],
   [name |-> <<"M", "a", "r", "b", "l", "e", " ", "H", "o", "u", "s", "e">>,
    starRating |-> 2, pricePerNight |-> 55, hasAcropolisView |-> FALSE,
    hasRooftopBar |-> FALSE, rooftopRating |-> 0,
    amenities |-> <<"Kitchen", "WiFi", "Garden">>,
    bestFor |-> <<"Budget", "Long stays", "Self-catering">>,
    overview |-> "Family-run pension with garden courtyard. Simple rooms but incredible value and warm hospitality.",
    pros |-> <<"Super affordable", "Lovely garden", "Friendly owners">>,
    cons |-> <<"Very basic", "Shared facilities">>],
   [name |-> <<"P", "h", "i", "l", "i", "p", "p", "o", "s", " ", "H", "o", "t", "e", "l">>,
    starRating |-> 3, pricePerNight |-> 95, hasAcropolisView |-> TRUE,
    hasRooftopBar |-> FALSE, rooftopRating |-> 0,
    amenities |-> <<"Breakfast", "WiFi", "AC">>,
    bestFor |-> <<"Mid-range", "Quiet", "Couples">>,
    overview |-> "Comfortable hotel in quiet Koukaki with partial Acropolis views. Good base for sightseeing.",
    pros |-> <<"Quiet area", "Good breakfast", "Near metro">>,
    cons |-> <<"Dated decor", "No rooftop">>]
  >>

SeedExarchia ==
  <<
   [name |-> <<"E", "x", "a", "r", "c", "h", "i", "o", "n", " ", "H", "o", "t", "e", "l">>,
    starRating |-> 3, pricePerNight |-> 65, hasAcropolisView |-> FALSE,
    hasRooftopBar |-> FALSE, rooftopRating |-> 0,
    amenities |-> <<"Breakfast", "WiFi", "AC">>,
    bestFor |-> <<"Budget", "Alternative culture", "Students">>,
    overview |-> "Classic hotel in bohemian Exarchia. Simple but clean with authentic neighborhood experience.",
    pros |-> <<"Very affordable", "Authentic area", "Near museums">>,
    cons |-> <<"Gritty neighborhood", "Basic rooms">>],
   [name |-> <<"O", "r", "i", "o", "n", " ", "H", "o", "t", "e", "l">>,
    starRating |-> 2, pricePerNight |-> 50, hasAcropolisView |-> FALSE,
    hasRooftopBar |-> FALSE, rooftopRating |-> 0,
    amenities |-> <<"WiFi", "AC">>,
    bestFor |-> <<"Budget", "Backpackers", "Long stays">>,
    overview |-> "No-frills budget hotel in Exarchia. Perfect for travelers who want to save money.",
    pros |-> <<"Rock-bottom prices", "Central location", "Clean">>,
    cons |-> <<"Very basic", "Alternative area">>],
   [name |-> <<"C", "i", "t", "y", " ", "C", "i", "r", "c", "u", "s", " ", "A", "t", "h", "e", "n", "s">>,
    starRating |-> 3, pricePerNight |-> 40, hasAcropolisView |-> FALSE,
    hasRooftopBar |-> TRUE, rooftopRating |-> 3,
    amenities |-> <<"Rooftop", "Bar", "Kitchen", "Events">>,
    bestFor |-> <<"Backpackers", "Social", "Budget">>,
    overview |-> "Award-winning hostel with great rooftop and social events. Mix of dorms and private rooms.",
    pros |-> <<"Great atmosphere", "Rooftop bar", "Social events">>,
    cons |-> <<"Hostel vibe", "Can be loud">>]
  >>

SeedPiraeus ==
  <<
   [name |-> <<"P", "i", "r", "a", "e", "u", "s", " ", "T", "h", "e", "o", "x", "e", "n", "i", "a", " ", "H", "o", "t", "e", "l">>,
    starRating |-> 4, pricePerNight |-> 120, hasAcropolisView |-> FALSE,
    hasRooftopBar |-> FALSE, rooftopRating |-> 0,
    amenities |-> <<"Restaurant", "Bar", "WiFi", "Parking">>,
    bestFor |-> <<"Ferry travelers", "Business", "Marina views">>,
    overview |-> "Modern hotel near Piraeus port. Perfect for early ferry departures to the islands.",
    pros |-> <<"Near ferries", "Marina views", "Good restaurant">>,
    cons |-> <<"Far from Athens center", "Industrial area">>],
   [name |-> <<"P", "h", "i", "d", "i", "a", "s", " ", "H", "o", "t", "e", "l">>,
    starRating |-> 3, pricePerNight |-> 75, hasAcropolisView |-> FALSE,
    hasRooftopBar |-> FALSE, rooftopRating |-> 0,
    amenities |-> <<"Breakfast", "WiFi", "AC">>,
    bestFor |-> <<"Ferry travelers", "Budget", "Practical">>,
    overview |-> "Simple hotel walking distance from Piraeus port. Ideal for catching early ferries.",
    pros |-> <<"Very close to port", "Affordable", "Clean">>,
    cons |-> <<"Basic rooms", "Not scenic">>],
   [name |-> <<"K", "a", "s", "t", "e", "l", "l", "a", " ", "H", "o", "t", "e", "l">>,
    starRating |-> 3, pricePerNight |-> 85, hasAcropolisView |-> FALSE,
    hasRooftopBar |-> FALSE, rooftopRating |-> 0,
    amenities |-> <<"Breakfast", "WiFi", "Sea View">>,
    bestFor |-> <<"Seafood lovers", "Local experience", "Quiet">>,
    overview |-> "Charming hotel in Kastella neighborhood with sea views. Near excellent seafood tavernas.",
    pros |-> <<"Sea views", "Great restaurants nearby", "Authentic area">>,
    cons |-> <<"Far from center", "Limited transport">>]
  >>

IdPlaka == <<"p", "l", "a", "k", "a">>
IdMonastiraki == <<"m", "o", "n", "a", "s", "t", "i", "r", "a", "k", "i">>
IdSyntagma == <<"s", "y", "n", "t", "a", "g", "m", "a">>
IdKolonaki == <<"k", "o", "l", "o", "n", "a", "k", "i">>
IdPsyrri == <<"p", "s", "y", "r", "r", "i">>
IdKoukaki == <<"k", "o", "u", "k", "a", "k", "i">>
IdExarchia == <<"e", "x", "a", "r", "c", "h", "i", "a">>
IdPiraeus == <<"p", "i", "r", "a", "e", "u", "s">>

\* the keys of the object getSeedHotels() returns
SeedIds == {IdPlaka, IdMonastiraki, IdSyntagma, IdKolonaki, IdPsyrri, IdKoukaki,
            IdExarchia, IdPiraeus}

\* getSeedHotels()[id] || []
getSeedHotels(id) ==
  CASE id = IdPlaka -> SeedPlaka
    [] id = IdMonastiraki -> SeedMonastiraki
    [] id = IdSyntagma -> SeedSyntagma
    [] id = IdKolonaki -> SeedKolonaki
    [] id = IdPsyrri -> SeedPsyrri
    [] id = IdKoukaki -> SeedKoukaki
    [] id = IdExarchia -> SeedExarchia
    [] id = IdPiraeus -> SeedPiraeus
    [] OTHER -> <<>>

(***************************************************************************)
(* The neighborhoods catalog, data/neighborhoods.json.  The file is an     *)
(* input of both programs: a list of neighborhood records with unique      *)
(* identifiers.  The catalogs the model runs on are drawn from HoodPool:   *)
(* neighborhoods the seed dataset covers and one it does not.              *)
(***************************************************************************)
IdGlyfada == <<"g", "l", "y", "f", "a", "d", "a">>

Hood(id, name, price, walk) ==
  [id |-> id, name |-> <<name>>, emoji |-> "(emoji)", tagline |-> "The place to stay",
   description |-> <<"O", "l", "d", " ", "T", "o", "w", "n", ".", " ", "B", "u", "s", "y", ".">>,
   avgPrice |-> price, walkToAcropolis |-> walk,
   vibe |-> <<"Historic", "Lively">>,
   bestFor |-> << <<"F", "o", "o", "d">>, <<"V", "i", "e", "w", "s">> >>]

HoodPool ==
  {Hood(IdPlaka, "Plaka", 140, "5 min"),
   Hood(IdMonastiraki, "Monastiraki", 110, "10 min"),
   Hood(IdKolonaki, "Kolonaki", 180, "25 min"),
   Hood(IdPsyrri, "Psyrri", 130, "12 min"),
   Hood(IdKoukaki, "Koukaki", 100, "8 min"),
   Hood(IdGlyfada, "Glyfada", 160, "60 min")}

\* the lists of at most n elements of S, none twice
RECURSIVE ListsOf(_, _)
ListsOf(S, n) ==
  IF n = 0 THEN {<<>>}
  ELSE LET shorter == ListsOf(S, n - 1)
       IN  shorter \cup
           {Append(p[1], p[2]) :
              p \in {q \in shorter \X S :
                       Len(q[1]) = n - 1 /\ q[2] \notin Range(q[1])}}

Catalogs == ListsOf(HoodPool, MaxHoods)

Days == 1..MaxDay

(***************************************************************************)
(* Numbers and JSON.                                                       *)
(***************************************************************************)
\* the number NaN (no price is negative)
NaN == -1
\* the JSON value null, where a number is expected
Null == -2

\* JSON.parse(JSON.stringify(x)) of a number: NaN is written as null
JsonNumber(x) == IF x = NaN THEN Null ELSE x

\* Math.round(a / b) of non-negative integers; 0 / 0 is NaN
RoundDiv(a, b) == IF b = 0 THEN NaN ELSE (2 * a + b) \div (2 * b)

RECURSIVE Sum(_)
\* prices.reduce((a, b) => a + b, 0)
Sum(s) == IF s = <<>> THEN 0 ELSE s[1] + Sum(Tail(s))

\* { ...a, ...b }: the fields of both, b's where both have one
Spread(a, b) == b @@ a

\* the files of a directory: a function from the names that exist
WriteFile(dir, name, content) ==
  [n \in DOMAIN dir \cup {name} |-> IF n = name THEN content ELSE dir[n]]

(***************************************************************************)
(* scripts/fetch-hotels.js, main.                                          *)
(***************************************************************************)
\* the reference taken from the display name
HotelHoodRefByName(hood) == hood.name

\* the neighborhood reference a processed hotel is given
HotelHoodRef(hood) == hood.id

\* one element of processedHotels: the derived fields, then the seed's own
ProcessHotel(hotel, hood, day) ==
  Spread([id |-> ReplaceFirstSub(generateSlug(hotel.name), AthensSuffix, <<>>)
                   \o <<"-">> \o hood.id,
          slug |-> generateSlug(hotel.name),
          neighborhood |-> HotelHoodRef(hood),
          neighborhoodName |-> hood.name,
          distanceToAcropolis |-> hood.walkToAcropolis,
          lastVerified |-> day,
          isActive |-> TRUE],
         hotel)

processedHotels(hood, day) ==
  LET hotels == getSeedHotels(hood.id)
  IN  [j \in DOMAIN hotels |-> ProcessHotel(hotels[j], hood, day)]

\* the count with the upper limit let in
CountInClosed(hotels, lo, hi) ==
  Len(SelectSeq(hotels, LAMBDA h : lo <= h.pricePerNight /\ h.pricePerNight <= hi))

\* allHotels.filter(h => lo <= h.pricePerNight && h.pricePerNight < hi).length
CountIn(hotels, lo, hi) ==
  Len(SelectSeq(hotels, LAMBDA h : lo <= h.pricePerNight /\ h.pricePerNight < hi))

\* ... .filter(h => h.pricePerNight >= lo).length
CountFrom(hotels, lo) ==
  Len(SelectSeq(hotels, LAMBDA h : h.pricePerNight >= lo))

\* ... .filter(h => h.pricePerNight < hi).length
CountBelow(hotels, hi) ==
  Len(SelectSeq(hotels, LAMBDA h : h.pricePerNight < hi))

BudgetBelow == 80
MidBelow == 150
UpscaleBelow == 250

priceStats(hotels) ==
  [budget |-> [range |-> "Under EUR80", count |-> CountBelow(hotels, BudgetBelow)],
   midRange |-> [range |-> "EUR80-150", count |-> CountIn(hotels, BudgetBelow, MidBelow)],
   upscale |-> [range |-> "EUR150-250", count |-> CountIn(hotels, MidBelow, UpscaleBelow)],
   luxury |-> [range |-> "EUR250+", count |-> CountFrom(hotels, UpscaleBelow)]]

avgPriceOf(hotels) ==
  RoundDiv(Sum([j \in DOMAIN hotels |-> hotels[j].pricePerNight]), Len(hotels))

\* masterData, as JSON.stringify writes it and JSON.parse reads it back
masterData(hotels, total, day) ==
  [lastUpdated |-> day,
   currency |-> "EUR",
   totalHotels |-> total,
   avgPrice |-> JsonNumber(avgPriceOf(hotels)),
   priceStats |-> priceStats(hotels),
   hotels |-> hotels]


(***************************************************************************)
(* scripts/generate.js: markup.  A page is a sequence of atoms; every atom *)
(* is a string (a number is interpolated as its decimal text).             *)
(***************************************************************************)
\* the text `${x}` gives for a number (null for a JSON null)
NumStr(n) == IF n = Null THEN "null" ELSE IF n = NaN THEN "NaN" ELSE ToString(n)

\* the text `${x}` gives for a boolean
BoolStr(b) == IF b THEN "true" ELSE "false"

\* the text of a member the record may lack
Undefined == "undefined"

Has(r, f) == f \in DOMAIN r

RECURSIVE Flatten(_)
\* parts.join(''), by halves
Flatten(parts) ==
  IF parts = <<>> THEN <<>>
  ELSE IF Len(parts) = 1 THEN parts[1]
  ELSE LET mid == Len(parts) \div 2
       IN  Flatten(SubSeq(parts, 1, mid)) \o Flatten(SubSeq(parts, mid + 1, Len(parts)))

\* parts.join(sep)
Join(parts, sep) ==
  Flatten([i \in DOMAIN parts |-> IF i = 1 THEN parts[i] ELSE sep \o parts[i]])

\* s.replace(/token/g, value): every occurrence
ReplaceAll(s, token, value) ==
  Flatten([i \in DOMAIN s |-> IF s[i] = token THEN value ELSE <<s[i]>>])

\* s.replace('token', value): the first occurrence only
ReplaceFirst(s, token, value) ==
  LET hits == {i \in DOMAIN s : s[i] = token}
  IN  IF hits = {} THEN s
      ELSE LET i == CHOOSE x \in hits : \A y \in hits : x <= y
           IN  SubSeq(s, 1, i - 1) \o value \o SubSeq(s, i + 1, Len(s))

\* a chain of replace calls, applied first to last; each is <<token, value, all>>
RECURSIVE Substitute(_, _)
Substitute(s, steps) ==
  IF steps = <<>> THEN s
  ELSE Substitute(IF steps[1][3] THEN ReplaceAll(s, steps[1][1], steps[1][2])
                                 ELSE ReplaceFirst(s, steps[1][1], steps[1][2]),
                  Tail(steps))

\* wrapInLayout(content, title, description, url)
wrapInLayout(layout, content, title, description, url) ==
  Substitute(layout,
    << <<"{{PAGE_TITLE}}", title, TRUE>>,
       <<"{{PAGE_DESCRIPTION}}", description, TRUE>>,
       <<"{{PAGE_URL}}", url, TRUE>>,
       <<"{{CONTENT}}", content, FALSE>> >>)

\* 'x'.repeat(n) for n >= 0
Repeat(x, n) == [i \in 1..n |-> x]

\* 'x'.repeat(n) throws a RangeError for a negative count
StarsThrow(rating) == rating < 0 \/ 5 - rating < 0

\* the glyphs the other way round
generateStarsEmptyFirst(rating) == Repeat("o", 5 - rating) \o Repeat("*", rating)

\* generateStars(rating), where it does not throw
generateStars(rating) == Repeat("*", rating) \o Repeat("o", 5 - rating)

\* the tiers with the limits let in below
getPriceTierInclusive(price) ==
  IF price <= 80 THEN "budget"
  ELSE IF price <= 150 THEN "mid"
  ELSE IF price <= 250 THEN "upscale"
  ELSE "luxury"

\* getPriceTier(price)
getPriceTier(price) ==
  IF price < 80 THEN "budget"
  ELSE IF price < 150 THEN "mid"
  ELSE IF price < 250 THEN "upscale"
  ELSE "luxury"

\* hotel.neighborhoodName || hotel.neighborhood
HoodLabel(hotel) ==
  IF Has(hotel, "neighborhoodName") /\ hotel.neighborhoodName # <<>>
    THEN hotel.neighborhoodName
    ELSE hotel.neighborhood

\* `${hotel.neighborhoodName}`
HoodNameText(hotel) ==
  IF Has(hotel, "neighborhoodName") THEN hotel.neighborhoodName ELSE <<Undefined>>

\* the first atom of every hotel card
CardOpen == "<a href='/hotel/"

\* generateHotelCard(hotel)
generateHotelCard(hotel) ==
  <<CardOpen>> \o hotel.slug
  \o <<"' class='hotel-card' data-tier='", getPriceTier(hotel.pricePerNight),
       "' data-view='", BoolStr(hotel.hasAcropolisView), "'><h3>">>
  \o hotel.name
  \o <<"</h3><span>">> \o generateStars(hotel.starRating)
  \o <<"</span><span>">> \o HoodLabel(hotel)
  \o <<"</span><div class='hotel-card-badges'>">>
  \o (IF hotel.hasAcropolisView THEN <<"<span class='badge badge-view'>Acropolis View</span>">> ELSE <<>>)
  \o (IF hotel.hasRooftopBar THEN <<"<span class='badge badge-rooftop'>Rooftop Bar</span>">> ELSE <<>>)
  \o <<"</div><span class='price'>EUR", NumStr(hotel.pricePerNight), "</span>/night</a>">>

\* the first atom of every neighborhood card
HoodCardOpen == "<a href='/athens-hotels/"

\* generateNeighborhoodCard(hood)
generateNeighborhoodCard(hood) ==
  <<HoodCardOpen>> \o hood.id
  \o <<"' class='neighborhood-card'><span class='emoji'>", hood.emoji, "</span><h3>">>
  \o hood.name
  \o <<"</h3><p class='price'>from EUR", NumStr(hood.avgPrice),
       "/night</p><p class='walk'>", hood.walkToAcropolis, " to Acropolis</p></a>">>

\* list.map(generateHotelCard).join('')
HotelCards(list) == Flatten([i \in DOMAIN list |-> generateHotelCard(list[i])])

\* list.map(generateNeighborhoodCard).join('')
NeighborhoodCards(list) == Flatten([i \in DOMAIN list |-> generateNeighborhoodCard(list[i])])

\* list.slice(0, n)
Take(list, n) == SubSeq(list, 1, IF Len(list) < n THEN Len(list) ELSE n)

\* the most cards a home page section shows
HomeSectionSize == 6

\* h.hasRooftopBar && h.rooftopRating >= 4
IsTopRooftop(h) == h.hasRooftopBar /\ Has(h, "rooftopRating") /\ h.rooftopRating >= 4

\* the selection without its slice
acropolisViewHotelsAll(hotels) == SelectSeq(hotels, LAMBDA h : h.hasAcropolisView)

\* generateHomepage: acropolisViewHotels, before the cards are made
acropolisViewHotels(hotels) ==
  Take(SelectSeq(hotels, LAMBDA h : h.hasAcropolisView), HomeSectionSize)

\* generateHomepage: rooftopHotels, before the cards are made
rooftopHotels(hotels) ==
  Take(SelectSeq(hotels, LAMBDA h : IsTopRooftop(h)), HomeSectionSize)

SiteUrl == <<"https://hotelsofathens.com/">>

\* the statistics with two of the counts exchanged
HomeStatsSwapped(data) ==
  << <<"{{TOTAL_HOTELS}}", <<NumStr(data.totalHotels)>>, TRUE>>,
     <<"{{AVG_PRICE}}", <<NumStr(data.avgPrice)>>, FALSE>>,
     <<"{{BUDGET_COUNT}}", <<NumStr(data.priceStats.midRange.count)>>, FALSE>>,
     <<"{{MID_COUNT}}", <<NumStr(data.priceStats.budget.count)>>, FALSE>>,
     <<"{{UPSCALE_COUNT}}", <<NumStr(data.priceStats.upscale.count)>>, FALSE>>,
     <<"{{LUXURY_COUNT}}", <<NumStr(data.priceStats.luxury.count)>>, FALSE>> >>

\* generateHomepage: the statistics it substitutes
HomeStats(data) ==
  << <<"{{TOTAL_HOTELS}}", <<NumStr(data.totalHotels)>>, TRUE>>,
     <<"{{AVG_PRICE}}", <<NumStr(data.avgPrice)>>, FALSE>>,
     <<"{{BUDGET_COUNT}}", <<NumStr(data.priceStats.budget.count)>>, FALSE>>,
     <<"{{MID_COUNT}}", <<NumStr(data.priceStats.midRange.count)>>, FALSE>>,
     <<"{{UPSCALE_COUNT}}", <<NumStr(data.priceStats.upscale.count)>>, FALSE>>,
     <<"{{LUXURY_COUNT}}", <<NumStr(data.priceStats.luxury.count)>>, FALSE>> >>

\* generateHomepage: the page it writes to index.html
HomePage(tpl, data, hoods) ==
  wrapInLayout(tpl.layout,
    Substitute(tpl.home,
      HomeStats(data) \o
      << <<"{{NEIGHBORHOODS_GRID}}", NeighborhoodCards(hoods), FALSE>>,
         <<"{{ACROPOLIS_VIEW_HOTELS}}",
           HotelCards(acropolisViewHotels(data.hotels)), FALSE>>,
         <<"{{ROOFTOP_HOTELS}}",
           HotelCards(rooftopHotels(data.hotels)), FALSE>> >>),
    <<"Compare Hotels by Neighborhood">>,
    <<"Discover ", NumStr(data.totalHotels), "+ Athens hotels. Compare prices, Acropolis views, rooftop bars by neighborhood.">>,
    SiteUrl)

\* s.split('.')[0]
FirstSentence(s) ==
  LET dots == {i \in DOMAIN s : s[i] = "."}
  IN  IF dots = {} THEN s
      ELSE SubSeq(s, 1, (CHOOSE x \in dots : \A y \in dots : x <= y) - 1)

\* the neighborhoods a neighborhood page shows as nearby
NearbySize == 4

nearby(hoods, hood) ==
  Take(SelectSeq(hoods, LAMBDA n : n.id # hood.id), NearbySize)

\* generateNeighborhoodPages: the page of one neighborhood
NeighborhoodPage(tpl, hoods, hood, hoodData) ==
  wrapInLayout(tpl.layout,
    Substitute(tpl.neighborhood,
      << <<"{{NAME}}", hood.name, TRUE>>,
         <<"{{EMOJI}}", <<hood.emoji>>, TRUE>>,
         <<"{{TAGLINE}}", <<hood.tagline>>, TRUE>>,
         <<"{{DESCRIPTION}}", hood.description, TRUE>>,
         <<"{{HOTEL_COUNT}}", <<NumStr(hoodData.hotelCount)>>, TRUE>>,
         <<"{{AVG_PRICE}}", <<NumStr(hood.avgPrice)>>, TRUE>>,
         <<"{{WALK_TIME}}", <<hood.walkToAcropolis>>, TRUE>>,
         <<"{{VIBE_TAGS}}",
           Flatten([i \in DOMAIN hood.vibe |->
                      <<"<span class='vibe-tag'>", hood.vibe[i], "</span>">>]), FALSE>>,
         <<"{{BEST_FOR}}", Join(hood.bestFor, <<", ">>), FALSE>>,
         <<"{{HOTELS_GRID}}", HotelCards(hoodData.hotels), FALSE>>,
         <<"{{NEARBY_NEIGHBORHOODS}}",
           NeighborhoodCards(nearby(hoods, hood)), FALSE>>,
         <<"{{FAQ_GOOD_AREA}}",
           <<"Yes! ">> \o hood.name \o <<" is ">> \o toLowerCase(FirstSentence(hood.description))
           \o <<". It's especially good for ">>
           \o toLowerCase(Join(hood.bestFor, <<", ">>)) \o <<".">>, FALSE>>,
         <<"{{FAQ_DISTANCE}}",
           <<"Most hotels in ">> \o hood.name
           \o <<" are within easy walking distance of the Acropolis and other major attractions.">>,
           FALSE>>,
         <<"{{FAQ_PRICE}}",
           <<"You can find options ranging from budget hostels to luxury hotels depending on your preferences.">>, FALSE>> >>),
    <<"Hotels in ">> \o hood.name \o <<", Athens">>,
    <<"Find the best hotels in ">> \o hood.name
    \o <<", Athens. ", hood.tagline, ". Compare ", NumStr(hoodData.hotelCount),
         " hotels from EUR", NumStr(hood.avgPrice), "/night.">>,
    SiteUrl \o <<"athens-hotels/">> \o hood.id)

\* (hotel[f] || fallback) of a list member
ListOr(hotel, f, fallback) == IF Has(hotel, f) THEN hotel[f] ELSE fallback

\* list.map(x => open + x + close).join('')
Tagged(list, open, close) == Flatten([i \in DOMAIN list |-> <<open, list[i], close>>])

\* Math.round(price * 0.8)
PriceMin(price) == (8 * price + 5) \div 10

\* Math.round(price * 1.5)
PriceMax(price) == (3 * price + 1) \div 2

\* encodeURIComponent of one atom
EncodeAtom(c) ==
  CASE c = " " -> "%20"
    [] c = "&" -> "%26"
    [] c = "\t" -> "%09"
    [] c = "\n" -> "%0A"
    [] c = " Athens" -> "%20Athens"
    [] c = "{{CONTENT}}" -> "%7B%7BCONTENT%7D%7D"
    [] c = "{{PRICE}}" -> "%7B%7BPRICE%7D%7D"
    [] OTHER -> c

\* encodeURIComponent(s)
encodeURIComponent(s) == [i \in DOMAIN s |-> EncodeAtom(s[i])]

\* the hotels a hotel page shows as similar
SimilarSize == 3

\* generateHotelPages: similarHotels, before the cards are made
similarHotels(hotels, hotel) ==
  Take(SelectSeq(hotels, LAMBDA h : h.neighborhood = hotel.neighborhood /\ h.id # hotel.id),
       SimilarSize)

\* generateHotelPages: badges
HotelBadges(hotel) ==
  (IF hotel.hasAcropolisView THEN <<"<span class='hotel-badge'>Acropolis View</span>">> ELSE <<>>)
  \o (IF hotel.hasRooftopBar THEN <<"<span class='hotel-badge'>Rooftop Bar</span>">> ELSE <<>>)
  \o (IF hotel.starRating >= 5 THEN <<"<span class='hotel-badge'>Luxury</span>">> ELSE <<>>)

\* hotel.overview || `${hotel.name} is a ...`
OverviewText(hotel) ==
  IF Has(hotel, "overview") /\ hotel.overview # ""
    THEN <<hotel.overview>>
    ELSE hotel.name \o <<" is a ", NumStr(hotel.starRating), "-star hotel in ">>
         \o HoodNameText(hotel) \o <<", Athens.">>

\* `${hotel.distanceToAcropolis}`
DistanceText(hotel) ==
  IF Has(hotel, "distanceToAcropolis") THEN hotel.distanceToAcropolis ELSE Undefined

\* generateHotelPages: the replace chain on the hotel template
HotelSteps(hotels, hotel) ==
  << <<"{{NAME}}", hotel.name, TRUE>>,
     <<"{{NEIGHBORHOOD_ID}}", hotel.neighborhood, TRUE>>,
     <<"{{NEIGHBORHOOD_NAME}}", HoodLabel(hotel), TRUE>>,
     <<"{{STARS}}", generateStars(hotel.starRating), FALSE>>,
     <<"{{STAR_RATING}}", <<NumStr(hotel.starRating)>>, FALSE>>,
     <<"{{BADGES}}", HotelBadges(hotel), FALSE>>,
     <<"{{PRICE}}", <<NumStr(hotel.pricePerNight)>>, TRUE>>,
     <<"{{PRICE_MIN}}", <<NumStr(PriceMin(hotel.pricePerNight))>>, FALSE>>,
     <<"{{PRICE_MAX}}", <<NumStr(PriceMax(hotel.pricePerNight))>>, FALSE>>,
     <<"{{OVERVIEW}}", OverviewText(hotel), FALSE>>,
     <<"{{AMENITIES}}",
       Tagged(ListOr(hotel, "amenities", <<>>), "<span class='amenity'>", "</span>"), FALSE>>,
     <<"{{PROS}}",
       Tagged(ListOr(hotel, "pros", <<"Great location", "Good value">>), "<li>", "</li>"), FALSE>>,
     <<"{{CONS}}",
       Tagged(ListOr(hotel, "cons", <<"Book early">>), "<li>", "</li>"), FALSE>>,
     <<"{{LOCATION_DESC}}", <<DistanceText(hotel), " walk to the Acropolis.">>, FALSE>>,
     <<"{{DISTANCE_ACROPOLIS}}", <<DistanceText(hotel)>>, FALSE>>,
     <<"{{DISTANCE_METRO}}", <<"5-10 min">>, FALSE>>,
     <<"{{HAS_VIEW}}", <<IF hotel.hasAcropolisView THEN "Yes" ELSE "No">>, FALSE>>,
     <<"{{HAS_ROOFTOP}}", <<IF hotel.hasRooftopBar THEN "Yes" ELSE "No">>, FALSE>>,
     <<"{{BEST_FOR_TAGS}}",
       Tagged(ListOr(hotel, "bestFor", <<"Travelers">>), "<span class='best-for-tag'>", "</span>"),
       FALSE>>,
     <<"{{SIMILAR_HOTELS}}", HotelCards(similarHotels(hotels, hotel)), FALSE>>,
     <<"{{BOOKING_URL}}",
       <<"https://www.booking.com/searchresults.html?ss=">>
       \o encodeURIComponent(hotel.name \o <<" Athens">>), FALSE>> >>

\* generateHotelPages: the page of one hotel
HotelPage(tpl, hotels, hotel) ==
  wrapInLayout(tpl.layout,
    Substitute(tpl.hotel, HotelSteps(hotels, hotel)),
    hotel.name,
    hotel.name \o <<" - ", NumStr(hotel.starRating), "-star hotel in ">>
    \o HoodNameText(hotel)
    \o <<", Athens. From EUR", NumStr(hotel.pricePerNight), "/night. ",
         IF hotel.hasAcropolisView THEN "Acropolis views available." ELSE "">>,
    SiteUrl \o <<"hotel/">> \o hotel.slug)

\* the file named after the identifier of the hotel
HotelPathById(hotel) == <<"hotel", hotel.id \o <<".html">> >>

\* the file a hotel page is written to: dist/hotel/<slug>.html
HotelPath(hotel) == <<"hotel", hotel.slug \o <<".html">> >>

\* the file a neighborhood page is written to: dist/athens-hotels/<id>.html
HoodPath(hood) == <<"athens-hotels", hood.id \o <<".html">> >>

\* a file directly under dist
TopPath(name) == <<"", <<name>> >>

\* process.env.FORMSPREE_ID || 'xnjzokwn'; an unset variable is ""
formspreeId(env) == IF env # "" THEN env ELSE "xnjzokwn"

\* generateContactPage: the page
ContactPage(tpl, env) ==
  wrapInLayout(tpl.layout,
    ReplaceFirst(tpl.contact, "{{FORMSPREE_ID}}", <<formspreeId(env)>>),
    <<"Contact Us">>,
    <<"Questions about Athens hotels? Contact the Hotels of Athens team for personalized recommendations.">>,
    SiteUrl \o <<"contact">>)

\* generateThankYouPage: the page
ThankYouPage(tpl) ==
  wrapInLayout(tpl.layout, tpl.thankYou, <<"Message Sent">>,
    <<"Thank you for contacting Hotels of Athens.">>, SiteUrl \o <<"thank-you">>)

RECURSIVE InsertSorted(_, _)
\* the pair x = <<key, record>> put into the sorted list of pairs after every
\* pair whose key is not above its own
InsertSorted(sorted, x) ==
  IF sorted = <<>> THEN <<x>>
  ELSE IF sorted[1][1] > x[1] THEN <<x>> \o sorted
  ELSE <<sorted[1]>> \o InsertSorted(Tail(sorted), x)

RECURSIVE SortPairs(_)
SortPairs(pairs) ==
  IF pairs = <<>> THEN <<>>
  ELSE InsertSorted(SortPairs(SubSeq(pairs, 1, Len(pairs) - 1)), pairs[Len(pairs)])

\* the list left as it is
SortByNothing(list, keys) == list

\* list.sort((a, b) => keys(a) - keys(b)): a stable sort, ascending in the key;
\* keys[i] is the key of list[i]
SortBy(list, keys) ==
  LET sorted == SortPairs([i \in DOMAIN list |-> <<keys[i], list[i]>>])
  IN  [i \in DOMAIN sorted |-> sorted[i][2]]

\* h.rooftopRating || 0
RooftopKey(h) == IF Has(h, "rooftopRating") THEN h.rooftopRating ELSE 0

LuxuryFrom == 200

\* generateGuidePages: budgetHotels, before the cards are made
budgetHotels(hotels) ==
  LET found == SelectSeq(hotels, LAMBDA h : h.pricePerNight < 80)
  IN  SortBy(found, [i \in DOMAIN found |-> found[i].pricePerNight])

\* generateGuidePages: luxuryHotels, before the cards are made
luxuryHotels(hotels) ==
  LET found == SelectSeq(hotels, LAMBDA h : h.pricePerNight >= LuxuryFrom)
  IN  SortBy(found, [i \in DOMAIN found |-> 0 - found[i].pricePerNight])

\* generateGuidePages: rooftopHotels, before the cards are made
rooftopGuideHotels(hotels) ==
  LET found == SelectSeq(hotels, LAMBDA h : h.hasRooftopBar)
  IN  SortBy(found, [i \in DOMAIN found |-> 0 - RooftopKey(found[i])])

\* sort called on the collection's own array: it is left sorted by price
SnapshotSortedInPlace(hotels) ==
  SortBy(hotels, [i \in DOMAIN hotels |-> hotels[i].pricePerNight])

\* generateGuidePages: allHotelsData.hotels after the three filter(...).sort(...)
\* chains; filter returns a new array and sort reorders that array in place
SnapshotAfterGuides(hotels) == hotels

\* generateGuidePages: one guide page
GuidePage(tpl, heading, lead, intro, list, title, description, slug) ==
  wrapInLayout(tpl.layout,
    <<"<section class='guide-hero'><h1>", heading, "</h1><p>", lead,
      "</p></section><section class='section'><div class='guide-intro'><p>", intro,
      "</p></div><div class='hotels-grid'>">>
    \o HotelCards(list) \o <<"</div></section>">>,
    <<title>>, <<description>>, SiteUrl \o <<slug>>)

BudgetGuide(tpl, hotels) ==
  GuidePage(tpl, "Budget Hotels in Athens", "Great stays under EUR80/night",
    "Athens offers excellent budget accommodation without sacrificing location or comfort.",
    budgetHotels(hotels), "Budget Hotels in Athens",
    "Find affordable Athens hotels under EUR80/night. Great locations, clean rooms, excellent value.",
    "budget-hotels-athens")

LuxuryGuide(tpl, hotels) ==
  GuidePage(tpl, "Luxury Hotels in Athens", "The finest 5-star experiences",
    "Experience Athens in style at these exceptional luxury hotels.",
    luxuryHotels(hotels), "Luxury Hotels in Athens",
    "Discover Athens' finest 5-star hotels. Rooftop pools, Acropolis views, world-class service.",
    "luxury-hotels-athens")

RooftopGuide(tpl, hotels) ==
  GuidePage(tpl, "Best Rooftop Bar Hotels in Athens", "Sunset cocktails with Acropolis views",
    "Nothing beats watching the sunset over the Acropolis with a cocktail in hand.",
    rooftopGuideHotels(hotels), "Best Rooftop Bar Hotels in Athens",
    "Hotels with the best rooftop bars in Athens. Acropolis views, sunset cocktails, unforgettable evenings.",
    "best-rooftop-bars-athens")

\* generateSitemap: urls
sitemapUrls(hoods, hotels) ==
  << [loc |-> SiteUrl, priority |-> "1.0"],
     [loc |-> SiteUrl \o <<"contact">>, priority |-> "0.5"],
     [loc |-> SiteUrl \o <<"budget-hotels-athens">>, priority |-> "0.8"],
     [loc |-> SiteUrl \o <<"luxury-hotels-athens">>, priority |-> "0.8"],
     [loc |-> SiteUrl \o <<"best-rooftop-bars-athens">>, priority |-> "0.8"] >>
  \o [i \in DOMAIN hoods |->
        [loc |-> SiteUrl \o <<"athens-hotels/">> \o hoods[i].id, priority |-> "0.9"]]
  \o [i \in DOMAIN hotels |->
        [loc |-> SiteUrl \o <<"hotel/">> \o hotels[i].slug, priority |-> "0.7"]]

\* the sitemap with the date of the run in every location as well
sitemapXmlStamped(hoods, hotels, day) ==
  LET urls == sitemapUrls(hoods, hotels)
  IN  [i \in DOMAIN urls |->
         [loc |-> urls[i].loc \o <<"?v=", ToString(day)>>, lastmod |-> day,
          priority |-> urls[i].priority]]

\* generateSitemap: sitemap.xml, as the list of its <url> elements
sitemapXml(hoods, hotels, day) ==
  LET urls == sitemapUrls(hoods, hotels)
  IN  [i \in DOMAIN urls |->
         [loc |-> urls[i].loc, lastmod |-> day, priority |-> urls[i].priority]]

\* generateRobots
robotsTxt == <<"User-agent: *", "Allow: /", "", "Sitemap: https://hotelsofathens.com/sitemap.xml">>

\* generateHeaders
headersFile ==
  <<"/*", "  X-Frame-Options: DENY", "  X-Content-Type-Options: nosniff",
    "  Referrer-Policy: strict-origin-when-cross-origin", "", "/images/*",
    "  Cache-Control: public, max-age=31536000", "", "/css/*",
    "  Cache-Control: public, max-age=31536000">>

\* generateRedirects
redirectsFile == <<"/index.html  /  301", "/area/*  /athens-hotels/:splat  301">>

(***************************************************************************)
(* The template set, templates/*.html.  Each template holds the            *)
(* placeholders its builder substitutes: the ones replaced everywhere      *)
(* twice, the ones replaced once a single time.                            *)
(***************************************************************************)
LayoutTemplate ==
  <<"<html><title>", "{{PAGE_TITLE}}", "</title><meta name='description' content='",
    "{{PAGE_DESCRIPTION}}", "'><link rel='canonical' href='", "{{PAGE_URL}}",
    "'><meta property='og:title' content='", "{{PAGE_TITLE}}", "'><body>",
    "{{CONTENT}}", "</body></html>">>

\* the atoms that open and close the two hotel sections of the home page
ViewOpen == "<section id='acropolis-view'>"
RooftopOpen == "<section id='rooftop'>"
SectionClose == "</section>"

\* the atoms of the home page that come right before a statistic
TotalMark == "<h1>Compare "
AvgMark == " hotels from EUR"
BudgetMark == "<li class='budget'>"
MidMark == "<li class='mid'>"
UpscaleMark == "<li class='upscale'>"
LuxuryMark == "<li class='luxury'>"

HomeTemplate ==
  <<TotalMark, "{{TOTAL_HOTELS}}", " hotels</h1><p>All ", "{{TOTAL_HOTELS}}",
    AvgMark, "{{AVG_PRICE}}", "</p><ul>", BudgetMark, "{{BUDGET_COUNT}}",
    "</li>", MidMark, "{{MID_COUNT}}", "</li>", UpscaleMark, "{{UPSCALE_COUNT}}", "</li>",
    LuxuryMark, "{{LUXURY_COUNT}}", "</li></ul><div class='neighborhoods-grid'>",
    "{{NEIGHBORHOODS_GRID}}", "</div>", ViewOpen, "{{ACROPOLIS_VIEW_HOTELS}}",
    SectionClose, RooftopOpen, "{{ROOFTOP_HOTELS}}", SectionClose>>

NeighborhoodTemplate ==
  <<"<h1>", "{{EMOJI}}", "{{NAME}}", "</h1><p>", "{{TAGLINE}}", "</p><p>",
    "{{DESCRIPTION}}", "</p><p>", "{{HOTEL_COUNT}}", " hotels from EUR", "{{AVG_PRICE}}",
    ", ", "{{WALK_TIME}}", " to the Acropolis</p>", "{{VIBE_TAGS}}", "<p>", "{{BEST_FOR}}",
    "</p><h2>Hotels in ", "{{NAME}}", "</h2>", "{{HOTELS_GRID}}", "<h2>Nearby</h2>",
    "{{NEARBY_NEIGHBORHOODS}}", "<h2>FAQ</h2>", "{{FAQ_GOOD_AREA}}", "{{FAQ_DISTANCE}}",
    "{{FAQ_PRICE}}">>

HotelTemplate ==
  <<"<a href='/athens-hotels/", "{{NEIGHBORHOOD_ID}}", "'>", "{{NEIGHBORHOOD_NAME}}",
    "</a><h1>", "{{NAME}}", "</h1>", "{{STARS}}", " ", "{{STAR_RATING}}", " stars",
    "{{BADGES}}", "<p>EUR", "{{PRICE}}", " (", "{{PRICE_MIN}}", "-", "{{PRICE_MAX}}",
    ")</p>", "{{OVERVIEW}}", "{{AMENITIES}}", "<ul>", "{{PROS}}", "</ul><ul>", "{{CONS}}",
    "</ul>", "{{LOCATION_DESC}}", "{{DISTANCE_ACROPOLIS}}", "{{DISTANCE_METRO}}",
    "{{HAS_VIEW}}", "{{HAS_ROOFTOP}}", "{{BEST_FOR_TAGS}}", "<h2>Similar</h2>",
    "{{SIMILAR_HOTELS}}", "<a href='", "{{BOOKING_URL}}", "'>Book ", "{{NAME}}",
    " from EUR", "{{PRICE}}", "</a>">>

ContactTemplate ==
  <<"<form action='https://formspree.io/f/", "{{FORMSPREE_ID}}", "' method='POST'></form>">>

ThankYouTemplate == <<"<h1>Thank you</h1>">>

Templates ==
  [layout |-> LayoutTemplate, home |-> HomeTemplate, neighborhood |-> NeighborhoodTemplate,
   hotel |-> HotelTemplate, contact |-> ContactTemplate, thankYou |-> ThankYouTemplate]

\* the values of the environment variable FORMSPREE_ID; "" is unset
EnvPool == {"", "mformid"}

VARIABLES
  now,          \* the calendar day, what new Date() reads
  catalog,      \* data/neighborhoods.json: its neighborhoods list
  hoodFiles,    \* data/hotels/<id>.json: the listing of each id that has a file
  masterFile,   \* data/all-hotels.json: <<>> while absent, else <<document>>
  templates,    \* templates/*.html
  env,          \* process.env.FORMSPREE_ID
  fpc,          \* fetch-hotels.js main: where it is
  fi,           \* fetch-hotels.js main: index of the neighborhood loop
  allHotels,    \* fetch-hotels.js main: allHotels
  totalHotels,  \* fetch-hotels.js main: totalHotels
  gpc,          \* generate.js: the builder that runs next
  gk,           \* generate.js: index of the running builder's loop
  allHotelsData,     \* generate.js: allHotelsData
  neighborhoodsData, \* generate.js: neighborhoodsData.neighborhoods
  dist,         \* the output directory: the content of each file it holds
  console,      \* what generate.js has printed
  run,          \* generate.js: 1 in its first run, 2 in a second one
  prevDist,     \* the output directory as the first run left it
  price,        \* getPriceTier: its argument
  tier,         \* getPriceTier: what it returned, "" before the call
  counted,      \* fetch-hotels.js main: priceStats of the one price
  rating,       \* generateStars: its argument
  stars,        \* generateStars: the string it returned, <<>> before it returns
  starsEnd,     \* generateStars: "" before the call, then "returned" or "RangeError"
  retries,      \* fetchWithRetry: its argument retries
  attempt,      \* fetchWithRetry: the loop variable i
  requests,     \* fetchWithRetry: what each fetch(url, options) so far came to
  outcome       \* fetchWithRetry: how the call ended and with what value

fetchVars == <<fpc, fi, allHotels, totalHotels>>
dataVars == <<catalog, hoodFiles, masterFile, templates, env>>
genVars == <<gpc, gk, allHotelsData, neighborhoodsData, dist, console, run, prevDist>>
tierVars == <<price, tier, counted>>
starVars == <<rating, stars, starsEnd>>
retryVars == <<retries, attempt, requests, outcome>>
callVars == <<tierVars, starVars, retryVars>>
vars == <<now, dataVars, fetchVars, genVars, callVars>>

(***************************************************************************)
(* scripts/fetch-hotels.js, main: the steps.                               *)
(***************************************************************************)
\* main starts: it reads the catalog and the seed
FetchStart ==
  /\ fpc = "start"
  /\ fpc' = IF catalog = <<>> THEN "stats" ELSE "hoods"
  /\ fi' = 1
  /\ allHotels' = <<>>
  /\ totalHotels' = 0
  /\ UNCHANGED <<callVars, now, dataVars, genVars>>

\* one turn of the loop over the catalog
FetchHood ==
  /\ fpc = "hoods"
  /\ fi <= Len(catalog)
  /\ LET hood == catalog[fi]
         processed == processedHotels(hood, now)
     IN  /\ hoodFiles' = WriteFile(hoodFiles, hood.id,
                            Spread(hood, [hotelCount |-> Len(processed),
                                          hotels |-> processed]))
         /\ allHotels' = allHotels \o processed
         /\ totalHotels' = totalHotels + Len(processed)
  /\ fi' = fi + 1
  /\ fpc' = IF fi = Len(catalog) THEN "stats" ELSE "hoods"
  /\ UNCHANGED <<callVars, now, catalog, masterFile, templates, env, genVars>>

\* the price statistics and the master file
FetchMaster ==
  /\ fpc = "stats"
  /\ masterFile' = <<masterData(allHotels, totalHotels, now)>>
  /\ fpc' = "done"
  /\ UNCHANGED <<callVars, now, catalog, hoodFiles, templates, env, fi, allHotels, totalHotels,
                 genVars>>

\* midnight passes; a run is short against a day, so it passes between runs
Tick ==
  /\ now < MaxDay
  /\ fpc = "done"
  /\ gpc \in {"load", "done"}
  /\ now' = now + 1
  /\ UNCHANGED <<callVars, dataVars, fetchVars, genVars>>

(***************************************************************************)
(* scripts/generate.js: the steps.  The module body loads the templates    *)
(* and the data, then main calls the builders in turn.  A builder that     *)
(* loops over records is one step per record.                              *)
(***************************************************************************)
\* the order with the sitemap made before the guides
AfterSitemapFirst(builder) ==
  CASE builder = "load" -> "home"
    [] builder = "home" -> "neighborhoods"
    [] builder = "neighborhoods" -> "hotels"
    [] builder = "hotels" -> "contact"
    [] builder = "contact" -> "thank-you"
    [] builder = "thank-you" -> "sitemap"
    [] builder = "sitemap" -> "guides"
    [] builder = "guides" -> "robots"
    [] builder = "robots" -> "headers"
    [] builder = "headers" -> "redirects"
    [] builder = "redirects" -> "summary"
    [] builder = "summary" -> "done"

\* the builder main calls after the one named
After(builder) ==
  CASE builder = "load" -> "home"
    [] builder = "home" -> "neighborhoods"
    [] builder = "neighborhoods" -> "hotels"
    [] builder = "hotels" -> "contact"
    [] builder = "contact" -> "thank-you"
    [] builder = "thank-you" -> "guides"
    [] builder = "guides" -> "sitemap"
    [] builder = "sitemap" -> "robots"
    [] builder = "robots" -> "headers"
    [] builder = "headers" -> "redirects"
    [] builder = "redirects" -> "summary"
    [] builder = "summary" -> "done"

\* what JSON.parse throws on: a file whose text is no JSON document
Malformed == [malformed |-> TRUE]

\* fs.readFileSync or JSON.parse throws: no file of the name, or a malformed one
Unreadable(dir, name) == name \notin DOMAIN dir \/ dir[name] = Malformed

\* every builder in a try block of its own: a throw is passed over
ThrownPassedOver(builder) == IF builder = "load" THEN "failed" ELSE After(builder)

\* where a throw takes the run: out of the module body, or out of main, whose
\* rejection main().catch(console.error) prints; nothing runs after either
Thrown(builder) == "failed"

\* the hotel cards a list needs can all be made
CardsThrow(list) == \E i \in DOMAIN list : StarsThrow(list[i].starRating)

\* the top-level reads of the templates and of the two data files
GenLoad ==
  /\ gpc = "load"
  /\ fpc = "done"
  /\ IF masterFile = <<>> \/ masterFile[1] = Malformed
       THEN /\ gpc' = Thrown(gpc)
            /\ UNCHANGED <<allHotelsData, neighborhoodsData>>
       ELSE /\ allHotelsData' = masterFile[1]
            /\ neighborhoodsData' = catalog
            /\ gpc' = After("load")
  /\ UNCHANGED <<callVars, now, dataVars, fetchVars, gk, dist, console, run, prevDist>>

\* generateHomepage
GenHomepage ==
  /\ gpc = "home"
  /\ console' = Append(console, "homepage")
  /\ IF CardsThrow(allHotelsData.hotels)
       THEN gpc' = Thrown(gpc) /\ dist' = dist
       ELSE /\ dist' = WriteFile(dist, TopPath("index.html"),
                         HomePage(templates, allHotelsData, neighborhoodsData))
            /\ gpc' = After("home")
  /\ UNCHANGED <<callVars, now, dataVars, fetchVars, gk, allHotelsData, neighborhoodsData, run,
                 prevDist>>

\* generateNeighborhoodPages: its first line and one turn of its loop
GenNeighborhoodPage ==
  /\ gpc = "neighborhoods"
  /\ console' = IF gk = 1 THEN Append(console, "neighborhood pages") ELSE console
  /\ IF neighborhoodsData = <<>>
       THEN gpc' = After("neighborhoods") /\ UNCHANGED <<gk, dist>>
       ELSE LET hood == neighborhoodsData[gk] IN
            IF \/ Unreadable(hoodFiles, hood.id)
               \/ CardsThrow(hoodFiles[hood.id].hotels)
              THEN gpc' = Thrown(gpc) /\ UNCHANGED <<gk, dist>>
              ELSE /\ dist' = WriteFile(dist, HoodPath(hood),
                                NeighborhoodPage(templates, neighborhoodsData, hood,
                                                 hoodFiles[hood.id]))
                   /\ gk' = IF gk = Len(neighborhoodsData) THEN 1 ELSE gk + 1
                   /\ gpc' = IF gk = Len(neighborhoodsData)
                               THEN After("neighborhoods") ELSE gpc
  /\ UNCHANGED <<callVars, now, dataVars, fetchVars, allHotelsData, neighborhoodsData, run,
                 prevDist>>

\* generateHotelPages: its first line and one turn of its loop
GenHotelPage ==
  /\ gpc = "hotels"
  /\ console' = IF gk = 1 THEN Append(console, "hotel pages") ELSE console
  /\ IF allHotelsData.hotels = <<>>
       THEN gpc' = After("hotels") /\ UNCHANGED <<gk, dist>>
       ELSE LET hotel == allHotelsData.hotels[gk] IN
            IF StarsThrow(hotel.starRating)
               \/ CardsThrow(similarHotels(allHotelsData.hotels, hotel))
              THEN gpc' = Thrown(gpc) /\ UNCHANGED <<gk, dist>>
              ELSE /\ dist' = WriteFile(dist, HotelPath(hotel),
                                HotelPage(templates, allHotelsData.hotels, hotel))
                   /\ gk' = IF gk = Len(allHotelsData.hotels) THEN 1 ELSE gk + 1
                   /\ gpc' = IF gk = Len(allHotelsData.hotels)
                               THEN After("hotels") ELSE gpc
  /\ UNCHANGED <<callVars, now, dataVars, fetchVars, allHotelsData, neighborhoodsData, run,
                 prevDist>>

\* generateContactPage
GenContactPage ==
  /\ gpc = "contact"
  /\ console' = Append(console, "contact page")
  /\ dist' = WriteFile(dist, TopPath("contact.html"), ContactPage(templates, env))
  /\ gpc' = After("contact")
  /\ UNCHANGED <<callVars, now, dataVars, fetchVars, gk, allHotelsData, neighborhoodsData, run,
                 prevDist>>

\* generateThankYouPage
GenThankYouPage ==
  /\ gpc = "thank-you"
  /\ console' = Append(console, "thank you page")
  /\ dist' = WriteFile(dist, TopPath("thank-you.html"), ThankYouPage(templates))
  /\ gpc' = After("thank-you")
  /\ UNCHANGED <<callVars, now, dataVars, fetchVars, gk, allHotelsData, neighborhoodsData, run,
                 prevDist>>

\* generateGuidePages
GenGuidePages ==
  /\ gpc = "guides"
  /\ console' = Append(console, "guide pages")
  /\ allHotelsData' = [allHotelsData EXCEPT !.hotels = SnapshotAfterGuides(@)]
  /\ IF CardsThrow(budgetHotels(allHotelsData.hotels))
       THEN gpc' = Thrown(gpc) /\ dist' = dist
       ELSE LET d1 == WriteFile(dist, TopPath("budget-hotels-athens.html"),
                                BudgetGuide(templates, allHotelsData.hotels))
            IN  IF CardsThrow(luxuryHotels(allHotelsData.hotels))
                  THEN gpc' = Thrown(gpc) /\ dist' = d1
                  ELSE LET d2 == WriteFile(d1, TopPath("luxury-hotels-athens.html"),
                                           LuxuryGuide(templates, allHotelsData.hotels))
                       IN  IF CardsThrow(rooftopGuideHotels(allHotelsData.hotels))
                             THEN gpc' = Thrown(gpc) /\ dist' = d2
                             ELSE /\ dist' = WriteFile(d2,
                                      TopPath("best-rooftop-bars-athens.html"),
                                      RooftopGuide(templates, allHotelsData.hotels))
                                  /\ gpc' = After("guides")
  /\ UNCHANGED <<callVars, now, dataVars, fetchVars, gk, neighborhoodsData, run,
                 prevDist>>

\* generateSitemap
GenSitemap ==
  /\ gpc = "sitemap"
  /\ console' = Append(console, "sitemap")
  /\ dist' = WriteFile(dist, TopPath("sitemap.xml"),
               sitemapXml(neighborhoodsData, allHotelsData.hotels, now))
  /\ gpc' = After("sitemap")
  /\ UNCHANGED <<callVars, now, dataVars, fetchVars, gk, allHotelsData, neighborhoodsData, run,
                 prevDist>>

\* generateRobots
GenRobots ==
  /\ gpc = "robots"
  /\ console' = Append(console, "robots.txt")
  /\ dist' = WriteFile(dist, TopPath("robots.txt"), robotsTxt)
  /\ gpc' = After("robots")
  /\ UNCHANGED <<callVars, now, dataVars, fetchVars, gk, allHotelsData, neighborhoodsData, run,
                 prevDist>>

\* generateHeaders
GenHeaders ==
  /\ gpc = "headers"
  /\ console' = Append(console, "_headers")
  /\ dist' = WriteFile(dist, TopPath("_headers"), headersFile)
  /\ gpc' = After("headers")
  /\ UNCHANGED <<callVars, now, dataVars, fetchVars, gk, allHotelsData, neighborhoodsData, run,
                 prevDist>>

\* generateRedirects
GenRedirects ==
  /\ gpc = "redirects"
  /\ console' = Append(console, "_redirects")
  /\ dist' = WriteFile(dist, TopPath("_redirects"), redirectsFile)
  /\ gpc' = After("redirects")
  /\ UNCHANGED <<callVars, now, dataVars, fetchVars, gk, allHotelsData, neighborhoodsData, run,
                 prevDist>>

\* main: the completion summary
GenSummary ==
  /\ gpc = "summary"
  /\ console' = Append(console, "Site generated!")
  /\ gpc' = After("summary")
  /\ UNCHANGED <<callVars, now, dataVars, fetchVars, gk, allHotelsData, neighborhoodsData,
                 dist, run, prevDist>>

Generate ==
  \/ GenLoad \/ GenHomepage \/ GenNeighborhoodPage \/ GenHotelPage \/ GenContactPage
  \/ GenThankYouPage \/ GenGuidePages \/ GenSitemap \/ GenRobots \/ GenHeaders
  \/ GenRedirects \/ GenSummary

\* generate.js is run a second time on the same templates, data and configuration
Rerun ==
  /\ gpc = "done"
  /\ run = 1
  /\ run' = 2
  /\ prevDist' = dist
  /\ gpc' = "load"
  /\ gk' = 1
  /\ console' = <<>>
  /\ UNCHANGED <<callVars, now, dataVars, fetchVars, allHotelsData, neighborhoodsData, dist>>

\* nothing has run: no data file but the catalog, an empty output directory
Idle ==
  /\ gpc = "load"
  /\ gk = 1
  /\ allHotelsData = <<>>
  /\ neighborhoodsData = <<>>
  /\ dist = <<>>
  /\ console = <<>>
  /\ run = 1
  /\ prevDist = <<>>

\* getPriceTier has not been called
NoTier ==
  /\ price = 0
  /\ tier = ""
  /\ counted = priceStats(<<>>)

\* fetchWithRetry has neither returned nor thrown
Running == [how |-> "running", value |-> <<>>]

\* neither generateStars nor fetchWithRetry has been called on its own
Uncalled ==
  /\ rating = 0
  /\ stars = <<>>
  /\ starsEnd = ""
  /\ retries = 0
  /\ attempt = 0
  /\ requests = <<>>
  /\ outcome = Running

(***************************************************************************)
(* The build: fetch-hotels.js, then generate.js, on a catalog of the pool. *)
(***************************************************************************)
Init ==
  /\ now \in Days
  /\ catalog \in Catalogs
  /\ hoodFiles = <<>>
  /\ masterFile = <<>>
  /\ templates = Templates
  /\ env = ""
  /\ fpc = "start"
  /\ fi = 1
  /\ allHotels = <<>>
  /\ totalHotels = 0
  /\ Idle
  /\ NoTier
  /\ Uncalled

Next == FetchStart \/ FetchHood \/ FetchMaster \/ Tick \/ Generate

Spec == Init /\ [][Next]_vars

(***************************************************************************)
(* generate.js on the data files it finds.  generate.js reads whatever     *)
(* documents data/ holds: the ones fetch-hotels.js wrote, or ones edited    *)
(* since.  The documents below are made of a few hotel records.            *)
(***************************************************************************)
MaxHotels == 2

HoodPlaka == Hood(IdPlaka, "Plaka", 140, "5 min")
HoodKoukaki == Hood(IdKoukaki, "Koukaki", 100, "8 min")

GenCatalog == <<HoodPlaka, HoodKoukaki>>

\* a record as fetch-hotels.js writes it
SampleFull == processedHotels(HoodPlaka, 1)[1]

\* another one, of the other neighborhood
SampleOther == processedHotels(HoodKoukaki, 1)[3]

\* a record entered by hand, with none of the optional members
SampleMinimal ==
  [id |-> <<"i", "n", "n", "-">> \o IdPlaka,
   slug |-> <<"i", "n", "n", "-", "a", "t", "h", "e", "n", "s">>,
   name |-> <<"I", "n", "n">>,
   starRating |-> 2, pricePerNight |-> 120,
   neighborhood |-> IdPlaka,
   hasAcropolisView |-> FALSE, hasRooftopBar |-> FALSE]

\* a record entered by hand whose name holds the text of a placeholder
SampleToken ==
  [id |-> <<"d", "e", "n", "-">> \o IdKoukaki,
   slug |-> <<"d", "e", "n", "-", "a", "t", "h", "e", "n", "s">>,
   name |-> <<"D", "e", "n", " ", "{{CONTENT}}">>,
   starRating |-> 3, pricePerNight |-> 75,
   neighborhood |-> IdKoukaki,
   hasAcropolisView |-> TRUE, hasRooftopBar |-> FALSE]

SampleHotels == {SampleFull, SampleOther, SampleMinimal, SampleToken}

HotelLists == ListsOf(SampleHotels, MaxHotels)

\* data/hotels/<id>.json of every neighborhood of the catalog
ListingFiles(hoods, hotels) ==
  [id \in {hoods[i].id : i \in DOMAIN hoods} |->
     LET hood == CHOOSE h \in Range(hoods) : h.id = id
         own == SelectSeq(hotels, LAMBDA h : h.neighborhood = id)
     IN  Spread(hood, [hotelCount |-> Len(own), hotels |-> own])]

\* data/all-hotels.json as fetch-hotels.js writes it for the hotels
FreshIndex(hotels) == masterData(hotels, Len(hotels), 1)

\* data/all-hotels.json after the last hotel was added to its list by hand:
\* the statistics are those of the list before
EditedIndex(hotels) ==
  [FreshIndex(Take(hotels, Len(hotels) - 1)) EXCEPT !.hotels = hotels]

\* a hotel template that shows the stars in two places
HotelTemplateTwice == HotelTemplate \o <<"<footer>", "{{STARS}}", "</footer>">>

TemplatePool == {Templates, [Templates EXCEPT !.hotel = HotelTemplateTwice]}

InitGen ==
  /\ now \in Days
  /\ catalog = GenCatalog
  /\ \E hotels \in HotelLists :
       /\ hoodFiles = ListingFiles(GenCatalog, hotels)
       /\ masterFile \in {<<FreshIndex(hotels)>>} \cup
                         (IF hotels = <<>> THEN {} ELSE {<<EditedIndex(hotels)>>})
  /\ templates \in TemplatePool
  /\ env \in EnvPool
  /\ fpc = "done"
  /\ fi = 1
  /\ allHotels = <<>>
  /\ totalHotels = 0
  /\ Idle
  /\ NoTier
  /\ Uncalled

NextGen == Tick \/ Generate \/ Rerun

SpecGen == InitGen /\ [][NextGen]_vars

(***************************************************************************)
(* getPriceTier and the bucket fetch-hotels.js counts a price in.          *)
(***************************************************************************)
MaxPrice == 300

\* getPriceTier(price), and priceStats of a collection of the one price
Classify ==
  /\ tier = ""
  /\ tier' = getPriceTier(price)
  /\ counted' = priceStats(<<[pricePerNight |-> price]>>)
  /\ UNCHANGED <<price, starVars, retryVars, now, dataVars, fetchVars, genVars>>

InitTier ==
  /\ price \in 0..MaxPrice
  /\ tier = ""
  /\ counted = priceStats(<<>>)
  /\ now = 1
  /\ catalog = <<>>
  /\ hoodFiles = <<>>
  /\ masterFile = <<>>
  /\ templates = Templates
  /\ env = ""
  /\ fpc = "start"
  /\ fi = 1
  /\ allHotels = <<>>
  /\ totalHotels = 0
  /\ Idle
  /\ Uncalled

NextTier == Classify

SpecTier == InitTier /\ [][NextTier]_vars

(***************************************************************************)
(* Properties of the fetch step.                                           *)
(***************************************************************************)
\* the hotels of data/all-hotels.json, none while the file is absent
MasterHotels == IF masterFile = <<>> THEN <<>> ELSE masterFile[1].hotels

\* the identifiers of the catalog
CatalogIds == {catalog[i].id : i \in DOMAIN catalog}

\* the sum of the prices of a list of hotels
PriceTotal(hs) ==
  LET f[k \in 0..Len(hs)] == IF k = 0 THEN 0 ELSE f[k - 1] + hs[k].pricePerNight
  IN  f[Len(hs)]

\* the positions of a list of hotels whose price is in lo..hi-1
PricedIn(hs, lo, hi) ==
  {i \in DOMAIN hs : lo <= hs[i].pricePerNight /\ hs[i].pricePerNight < hi}


\* C1: no two hotels of the consolidated collection that fetch-hotels.js writes
\* have the same slug, generateSlug of their names.
SlugsUnique ==
  \A i, j \in DOMAIN MasterHotels :
    i # j => generateSlug(MasterHotels[i].name) # generateSlug(MasterHotels[j].name)

\* C4, as stated: in the index fetch-hotels.js writes, totalHotels is the number
\* of records, avgPrice is Math.round of the mean price, and the four bucket
\* counts sum to totalHotels.
IndexAsStated ==
  masterFile # <<>> =>
    LET d == masterFile[1]
    IN  /\ d.totalHotels = Len(d.hotels)
        /\ d.avgPrice = RoundDiv(PriceTotal(d.hotels), Len(d.hotels))
        /\ d.priceStats.budget.count + d.priceStats.midRange.count + d.priceStats.upscale.count
             + d.priceStats.luxury.count = d.totalHotels

\* C4, amended: in the index fetch-hotels.js writes, totalHotels is the number of
\* records; avgPrice is the mean price rounded to the nearest integer, halves up,
\* when there is a record, and null when there is none; every record is in
\* exactly one of the four price ranges below 80, 80 to 149, 150 to 249, and 250
\* or more; each bucket count is the number of records of its range; the four
\* counts sum to totalHotels.
IndexCorrect ==
  masterFile # <<>> =>
    LET d == masterFile[1]
        hs == d.hotels
        n == Len(hs)
        total == PriceTotal(hs)
        B == {i \in DOMAIN hs : hs[i].pricePerNight < 80}
        M == PricedIn(hs, 80, 150)
        U == PricedIn(hs, 150, 250)
        L == {i \in DOMAIN hs : hs[i].pricePerNight >= 250}
    IN  /\ d.totalHotels = n
        /\ n > 0 => /\ d.avgPrice >= 0
                    /\ 2 * n * d.avgPrice - n <= 2 * total
                    /\ 2 * total < 2 * n * d.avgPrice + n
        /\ n = 0 => d.avgPrice = Null
        /\ \A i \in DOMAIN hs : Cardinality({S \in {B, M, U, L} : i \in S}) = 1
        /\ d.priceStats.budget.count = Cardinality(B)
        /\ d.priceStats.midRange.count = Cardinality(M)
        /\ d.priceStats.upscale.count = Cardinality(U)
        /\ d.priceStats.luxury.count = Cardinality(L)
        /\ d.priceStats.budget.count + d.priceStats.midRange.count + d.priceStats.upscale.count
             + d.priceStats.luxury.count = d.totalHotels

\* the index has been written for hotels of every bucket, two of them priced at a
\* limit, and their mean price is no integer
IndexWitness ==
  /\ masterFile # <<>>
  /\ masterFile[1].priceStats.budget.count > 0
  /\ masterFile[1].priceStats.midRange.count > 0
  /\ masterFile[1].priceStats.upscale.count > 0
  /\ masterFile[1].priceStats.luxury.count > 0
  /\ \E i, j \in DOMAIN MasterHotels :
       MasterHotels[i].pricePerNight = 150 /\ MasterHotels[j].pricePerNight = 250
  /\ PriceTotal(MasterHotels) % Len(MasterHotels) # 0

\* C6: every hotel of the consolidated collection and of every listing file has
\* as its neighborhood the identifier of a neighborhood of the catalog, and a
\* hotel of the listing file of a neighborhood has that neighborhood's.
ReferencesResolve ==
  /\ \A id \in DOMAIN hoodFiles :
       \A j \in DOMAIN hoodFiles[id].hotels :
         /\ hoodFiles[id].hotels[j].neighborhood = id
         /\ hoodFiles[id].hotels[j].neighborhood \in CatalogIds
  /\ \A j \in DOMAIN allHotels : allHotels[j].neighborhood \in CatalogIds
  /\ \A j \in DOMAIN MasterHotels : MasterHotels[j].neighborhood \in CatalogIds

\* the files of two neighborhoods and the consolidated file have been written,
\* with hotels of both neighborhoods
ReferencesWitness ==
  /\ Cardinality({id \in DOMAIN hoodFiles : hoodFiles[id].hotels # <<>>}) = 2
  /\ \E i, j \in DOMAIN MasterHotels :
       MasterHotels[i].neighborhood # MasterHotels[j].neighborhood

(***************************************************************************)
(* Properties of the generated site.                                       *)
(***************************************************************************)
\* the file of the output directory that is the sitemap
SitemapPath == TopPath("sitemap.xml")

\* the files of the output directory that are pages
PagePaths(dir) ==
  {p \in DOMAIN dir :
     p \notin {SitemapPath, TopPath("robots.txt"), TopPath("_headers"), TopPath("_redirects")}}

\* the address a page written to the path is served at
PageUrl(p) ==
  IF p[1] = "hotel" THEN SiteUrl \o <<"hotel/">> \o SubSeq(p[2], 1, Len(p[2]) - 1)
  ELSE IF p[1] = "athens-hotels"
    THEN SiteUrl \o <<"athens-hotels/">> \o SubSeq(p[2], 1, Len(p[2]) - 1)
  ELSE CASE p[2] = <<"index.html">> -> SiteUrl
         [] p[2] = <<"contact.html">> -> SiteUrl \o <<"contact">>
         [] p[2] = <<"thank-you.html">> -> SiteUrl \o <<"thank-you">>
         [] p[2] = <<"budget-hotels-athens.html">> -> SiteUrl \o <<"budget-hotels-athens">>
         [] p[2] = <<"luxury-hotels-athens.html">> -> SiteUrl \o <<"luxury-hotels-athens">>
         [] p[2] = <<"best-rooftop-bars-athens.html">> ->
              SiteUrl \o <<"best-rooftop-bars-athens">>

\* the sitemap priority of the class of the page at an address
ClassPriority(loc) ==
  IF loc = SiteUrl THEN "1.0"
  ELSE IF loc = SiteUrl \o <<"contact">> THEN "0.5"
  ELSE IF Len(loc) > 1 /\ loc[2] = "athens-hotels/" THEN "0.9"
  ELSE IF Len(loc) > 1 /\ loc[2] = "hotel/" THEN "0.7"
  ELSE "0.8"

\* C2: after a complete run of generate.js every hotel of the collection has its
\* page under dist/hotel/, and the page is the one rendered from its own record.
EveryHotelHasItsPage ==
  gpc = "done" =>
    \A i \in DOMAIN allHotelsData.hotels :
      LET hotel == allHotelsData.hotels[i]
      IN  /\ HotelPath(hotel) \in DOMAIN dist
          /\ dist[HotelPath(hotel)] = HotelPage(templates, allHotelsData.hotels, hotel)

\* C7: after a complete run of generate.js, sitemap.xml has an entry for every
\* page of the output directory and only for those, no two entries have the same
\* location, and every entry has the priority of the class of its page.
SitemapOnePerPage ==
  gpc = "done" =>
    LET entries == dist[SitemapPath]
        pages == PagePaths(dist)
    IN  /\ \A i, j \in DOMAIN entries : i # j => entries[i].loc # entries[j].loc
        /\ \A p \in pages : \E i \in DOMAIN entries : entries[i].loc = PageUrl(p)
        /\ \A i \in DOMAIN entries :
             /\ \E p \in pages : entries[i].loc = PageUrl(p)
             /\ entries[i].priority = ClassPriority(entries[i].loc)

\* the atoms of a page between the atom that opens a section and the next atom
\* that closes one
SectionOf(page, open) ==
  LET a == CHOOSE i \in DOMAIN page : page[i] = open
      b == CHOOSE j \in DOMAIN page :
             /\ j > a
             /\ page[j] = SectionClose
             /\ \A k \in (a + 1)..(j - 1) : page[k] # SectionClose
  IN  SubSeq(page, a + 1, b - 1)

\* the first (at most limit) positions of a set of positions
FirstOf(Q, limit) == {i \in Q : Cardinality({j \in Q : j < i}) < limit}

\* the cards of the hotels at the positions, in the order of the list
CardsAt(hs, I) ==
  LET f[k \in 0..Len(hs)] ==
        IF k = 0 THEN <<>>
        ELSE f[k - 1] \o (IF k \in I THEN generateHotelCard(hs[k]) ELSE <<>>)
  IN  f[Len(hs)]

\* the number of hotel cards in a run of atoms
CardCount(atoms) == Cardinality({i \in DOMAIN atoms : atoms[i] = CardOpen})

RerunIdentical == (run = 2 /\ gpc = "done") => dist = prevDist

\* C3, amended: a second run of generate.js on the same templates, data and
\* configuration writes the same files; every file but sitemap.xml has the
\* content the first run gave it, and sitemap.xml has the same entries with the
\* same locations and priorities: only the lastmod of an entry, the date at
\* which the run wrote it, may differ, and it is not before the first run's.
RerunSameButDate ==
  (run = 2 /\ gpc = "done") =>
    /\ DOMAIN dist = DOMAIN prevDist
    /\ \A p \in DOMAIN dist \ {SitemapPath} : dist[p] = prevDist[p]
    /\ DOMAIN dist[SitemapPath] = DOMAIN prevDist[SitemapPath]
    /\ \A i \in DOMAIN dist[SitemapPath] :
         /\ dist[SitemapPath][i].loc = prevDist[SitemapPath][i].loc
         /\ dist[SitemapPath][i].priority = prevDist[SitemapPath][i].priority
         /\ dist[SitemapPath][i].lastmod >= prevDist[SitemapPath][i].lastmod

\* a second run has ended on a later day than the first: the sitemap differs from
\* the one of the first run, and hotel pages were written
RerunWitness ==
  /\ run = 2
  /\ gpc = "done"
  /\ dist[SitemapPath] # prevDist[SitemapPath]
  /\ \E p \in DOMAIN dist : p[1] = "hotel"

\* the atom of a page that follows the first atom equal to mark
Shown(page, mark) == page[(CHOOSE i \in DOMAIN page : page[i] = mark) + 1]

\* the atom of a page that comes before the first atom equal to mark
ShownBefore(page, mark) == page[(CHOOSE i \in DOMAIN page : page[i] = mark) - 1]

\* C5, as stated: the statistics the home page shows are those derived from the
\* hotels list of the document the run loaded: the number of hotels, Math.round
\* of their mean price, and the number of hotels of each price range.
HomeShowsDerived ==
  TopPath("index.html") \in DOMAIN dist =>
    LET page == dist[TopPath("index.html")]
        hs == allHotelsData.hotels
    IN  /\ Shown(page, TotalMark) = ToString(Len(hs))
        /\ ShownBefore(page, AvgMark) = ToString(Len(hs))
        /\ Shown(page, AvgMark) = NumStr(RoundDiv(PriceTotal(hs), Len(hs)))
        /\ Shown(page, BudgetMark)
             = ToString(Cardinality({i \in DOMAIN hs : hs[i].pricePerNight < 80}))
        /\ Shown(page, MidMark) = ToString(Cardinality(PricedIn(hs, 80, 150)))
        /\ Shown(page, UpscaleMark) = ToString(Cardinality(PricedIn(hs, 150, 250)))
        /\ Shown(page, LuxuryMark)
             = ToString(Cardinality({i \in DOMAIN hs : hs[i].pricePerNight >= 250}))

\* C5, amended: the statistics the home page shows are the members totalHotels,
\* avgPrice and priceStats stored in the document the run loaded, as text (null
\* for an avgPrice of null); generate.js derives nothing from the hotels list.
HomeShowsStored ==
  TopPath("index.html") \in DOMAIN dist =>
    LET page == dist[TopPath("index.html")]
        d == allHotelsData
    IN  /\ Shown(page, TotalMark) = ToString(d.totalHotels)
        /\ ShownBefore(page, AvgMark) = ToString(d.totalHotels)
        /\ Shown(page, AvgMark) = (IF d.avgPrice = Null THEN "null" ELSE ToString(d.avgPrice))
        /\ Shown(page, BudgetMark) = ToString(d.priceStats.budget.count)
        /\ Shown(page, MidMark) = ToString(d.priceStats.midRange.count)
        /\ Shown(page, UpscaleMark) = ToString(d.priceStats.upscale.count)
        /\ Shown(page, LuxuryMark) = ToString(d.priceStats.luxury.count)

\* the home page has been written from a document whose stored statistics are
\* not those of its hotels list, and whose bucket counts differ from one another
HomeStoredWitness ==
  /\ TopPath("index.html") \in DOMAIN dist
  /\ allHotelsData.totalHotels # Len(allHotelsData.hotels)
  /\ allHotelsData.priceStats.budget.count # allHotelsData.priceStats.midRange.count
  /\ Shown(dist[TopPath("index.html")], TotalMark) = ToString(allHotelsData.totalHotels)

\* the placeholders the builders substitute
Tokens ==
  {"{{PAGE_TITLE}}", "{{PAGE_DESCRIPTION}}", "{{PAGE_URL}}", "{{CONTENT}}",
   "{{TOTAL_HOTELS}}", "{{AVG_PRICE}}", "{{BUDGET_COUNT}}", "{{MID_COUNT}}",
   "{{UPSCALE_COUNT}}", "{{LUXURY_COUNT}}", "{{NEIGHBORHOODS_GRID}}",
   "{{ACROPOLIS_VIEW_HOTELS}}", "{{ROOFTOP_HOTELS}}", "{{NAME}}", "{{EMOJI}}",
   "{{TAGLINE}}", "{{DESCRIPTION}}", "{{HOTEL_COUNT}}", "{{WALK_TIME}}", "{{VIBE_TAGS}}",
   "{{BEST_FOR}}", "{{HOTELS_GRID}}", "{{NEARBY_NEIGHBORHOODS}}", "{{FAQ_GOOD_AREA}}",
   "{{FAQ_DISTANCE}}", "{{FAQ_PRICE}}", "{{NEIGHBORHOOD_ID}}", "{{NEIGHBORHOOD_NAME}}",
   "{{STARS}}", "{{STAR_RATING}}", "{{BADGES}}", "{{PRICE}}", "{{PRICE_MIN}}",
   "{{PRICE_MAX}}", "{{OVERVIEW}}", "{{AMENITIES}}", "{{PROS}}", "{{CONS}}",
   "{{LOCATION_DESC}}", "{{DISTANCE_ACROPOLIS}}", "{{DISTANCE_METRO}}", "{{HAS_VIEW}}",
   "{{HAS_ROOFTOP}}", "{{BEST_FOR_TAGS}}", "{{SIMILAR_HOTELS}}", "{{BOOKING_URL}}",
   "{{FORMSPREE_ID}}"}

\* C8: no page of the output directory holds a placeholder the builders
\* substitute, whatever the templates and the data.
NoTokenLeft ==
  \A p \in PagePaths(dist) : \A i \in DOMAIN dist[p] : dist[p][i] \notin Tokens

\* the bucket of priceStats a tier label stands for
BucketOf(label) ==
  CASE label = "budget" -> "budget"
    [] label = "mid" -> "midRange"
    [] label = "upscale" -> "upscale"
    [] label = "luxury" -> "luxury"

\* C10: getPriceTier gives a price one of the four labels: budget below 80, mid
\* from 80 to 149, upscale from 150 to 249, luxury from 250; and the label names
\* the one bucket in which fetch-hotels.js counts the price in priceStats.
TierMatchesBucket ==
  tier # "" =>
    /\ tier \in {"budget", "mid", "upscale", "luxury"}
    /\ (tier = "budget") = (price < 80)
    /\ (tier = "mid") = (80 <= price /\ price <= 149)
    /\ (tier = "upscale") = (150 <= price /\ price <= 249)
    /\ (tier = "luxury") = (price >= 250)
    /\ counted[BucketOf(tier)].count = 1
    /\ counted.budget.count + counted.midRange.count + counted.upscale.count + counted.luxury.count = 1

\* getPriceTier has been called on a price at a limit
TierWitness ==
  /\ price \in {80, 150, 250}
  /\ tier = (IF price = 80 THEN "mid" ELSE IF price = 150 THEN "upscale" ELSE "luxury")
  /\ counted[BucketOf(tier)].count = 1


(***************************************************************************)
(* generateStars on its own, on ratings inside and outside 0..5.           *)
(***************************************************************************)
MaxRating == 25

\* generateStars(rating) returns
StarsReturn ==
  /\ starsEnd = ""
  /\ ~StarsThrow(rating)
  /\ stars' = generateStars(rating)
  /\ starsEnd' = "returned"
  /\ UNCHANGED <<rating, tierVars, retryVars, now, dataVars, fetchVars, genVars>>

\* one of the two repeat calls throws
StarsRangeError ==
  /\ starsEnd = ""
  /\ StarsThrow(rating)
  /\ starsEnd' = "RangeError"
  /\ UNCHANGED <<rating, stars, tierVars, retryVars, now, dataVars, fetchVars, genVars>>

\* no program has run and no file is there
NothingRun ==
  /\ now = 1
  /\ catalog = <<>>
  /\ hoodFiles = <<>>
  /\ masterFile = <<>>
  /\ templates = Templates
  /\ env = ""
  /\ fpc = "start"
  /\ fi = 1
  /\ allHotels = <<>>
  /\ totalHotels = 0
  /\ Idle
  /\ NoTier

InitStars ==
  /\ rating \in (0 - MaxRating)..(5 + MaxRating)
  /\ stars = <<>>
  /\ starsEnd = ""
  /\ retries = 0
  /\ attempt = 0
  /\ requests = <<>>
  /\ outcome = Running
  /\ NothingRun

NextStars == StarsReturn \/ StarsRangeError

SpecStars == InitStars /\ [][NextStars]_vars

\* C11: for an integer rating from 0 to 5 generateStars returns five glyphs,
\* the first `rating` of them filled and the others empty; for an integer
\* rating below 0 or above 5 it throws and returns nothing.
StarsAsRated ==
  starsEnd # "" =>
    IF 0 <= rating /\ rating <= 5
      THEN /\ starsEnd = "returned"
           /\ Len(stars) = 5
           /\ \A k \in 1..5 : stars[k] = (IF k <= rating THEN "*" ELSE "o")
      ELSE /\ starsEnd = "RangeError"
           /\ stars = <<>>

\* generateStars has returned the glyphs of a three-star rating
StarsWitness ==
  /\ rating = 3
  /\ starsEnd = "returned"
  /\ stars = <<"*", "*", "*", "o", "o">>

(***************************************************************************)
(* The order of the builders.                                              *)
(***************************************************************************)
\* the builders in the order the claim gives
Builders ==
  <<"home", "neighborhoods", "hotels", "contact", "thank-you", "guides", "sitemap",
    "robots", "headers", "redirects">>

\* the line each of them prints when it starts
Announces ==
  <<"homepage", "neighborhood pages", "hotel pages", "contact page", "thank you page",
    "guide pages", "sitemap", "robots.txt", "_headers", "_redirects">>

\* where a run is: the place of the builder that runs next, 11 and 12 after the last
Rank(pc) ==
  CASE pc = "load" -> 0
    [] pc = "summary" -> 11
    [] pc = "done" -> 12
    [] OTHER -> CHOOSE b \in DOMAIN Builders : Builders[b] = pc

\* the files a builder writes in a complete run on the given data
FilesOf(builder, hoods, hotels) ==
  CASE builder = "home" -> {TopPath("index.html")}
    [] builder = "neighborhoods" -> {HoodPath(hoods[k]) : k \in DOMAIN hoods}
    [] builder = "hotels" -> {HotelPath(hotels[k]) : k \in DOMAIN hotels}
    [] builder = "contact" -> {TopPath("contact.html")}
    [] builder = "thank-you" -> {TopPath("thank-you.html")}
    [] builder = "guides" -> {TopPath("budget-hotels-athens.html"),
                              TopPath("luxury-hotels-athens.html"),
                              TopPath("best-rooftop-bars-athens.html")}
    [] builder = "sitemap" -> {TopPath("sitemap.xml")}
    [] builder = "robots" -> {TopPath("robots.txt")}
    [] builder = "headers" -> {TopPath("_headers")}
    [] builder = "redirects" -> {TopPath("_redirects")}

\* C12: the builders run one after another in the order home, neighborhoods,
\* hotels, contact, thank-you, guides, sitemap, robots, headers, redirects:
\* while a builder runs, every file of the builders before it is written and
\* no file of a builder after it is; the lines printed are the builders'
\* lines in that order, each once; and the completion summary is printed
\* last, after the redirects builder has finished.
BuildersInOrder ==
  /\ gpc = "load" => dist = <<>> /\ console = <<>>
  /\ gpc \notin {"load", "failed"} =>
       LET r == Rank(gpc)
           hotels == allHotelsData.hotels
           begun == IF r <= 10 /\ gk > 1 THEN r ELSE r - 1
           lines == SubSeq(Announces, 1, IF begun > 10 THEN 10 ELSE begun)
       IN  /\ \A b \in DOMAIN Builders :
                /\ b < r => FilesOf(Builders[b], neighborhoodsData, hotels) \subseteq DOMAIN dist
                /\ b > r => FilesOf(Builders[b], neighborhoodsData, hotels) \cap DOMAIN dist = {}
           /\ console = (IF gpc = "done" THEN Append(lines, "Site generated!") ELSE lines)

\* a run on a catalog of two neighborhoods has printed its summary
OrderWitness ==
  /\ gpc = "done"
  /\ Len(neighborhoodsData) = 2
  /\ Len(console) = 11
  /\ console[11] = "Site generated!"
  /\ TopPath("_redirects") \in DOMAIN dist

(***************************************************************************)
(* generate.js on data files that make it fail: a listing file or the      *)
(* master file missing or malformed, a hotel with a star rating above 5.   *)
(***************************************************************************)
\* a record entered by hand with six stars, of a neighborhood the catalog lacks
SampleOverRated ==
  [id |-> <<"s", "p", "a", "-">> \o IdGlyfada,
   slug |-> <<"s", "p", "a", "-", "a", "t", "h", "e", "n", "s">>,
   name |-> <<"S", "p", "a">>,
   starRating |-> 6, pricePerNight |-> 90,
   neighborhood |-> IdGlyfada,
   hasAcropolisView |-> FALSE, hasRooftopBar |-> FALSE]

FailHotelLists == ListsOf({SampleFull, SampleOther, SampleMinimal, SampleOverRated}, MaxHotels)

\* the listing files with some of them missing and some malformed
BrokenListings(files) ==
  UNION {[kept -> {Malformed}] \cup
         {[id \in kept |-> files[id]]} \cup
         {[id \in kept |-> IF id = bad THEN Malformed ELSE files[id]] : bad \in kept} :
           kept \in SUBSET DOMAIN files}

InitFail ==
  /\ now = 1
  /\ catalog = GenCatalog
  /\ \E hotels \in FailHotelLists :
       /\ hoodFiles \in BrokenListings(ListingFiles(GenCatalog, hotels))
       /\ masterFile \in {<<>>, <<Malformed>>, <<FreshIndex(hotels)>>}
  /\ templates = Templates
  /\ env = ""
  /\ fpc = "done"
  /\ fi = 1
  /\ allHotels = <<>>
  /\ totalHotels = 0
  /\ Idle
  /\ NoTier
  /\ Uncalled

NextFail == Generate

SpecFail == InitFail /\ [][NextFail]_vars

\* the hotels of the master file, none where it cannot be read
ReadableHotels == IF Unreadable(masterFile, 1) THEN <<>> ELSE masterFile[1].hotels

\* every file the output directory holds is there after the step, unchanged
FilesKept == \A f \in DOMAIN dist : f \in DOMAIN dist' /\ dist'[f] = dist[f]

\* a run is at a builder, at the summary or at its end only if every builder
\* before has written all its files; the summary is printed only then
NothingAfterFailure ==
  /\ gpc \notin {"load", "failed"} =>
       \A b \in DOMAIN Builders :
         b < Rank(gpc) => FilesOf(Builders[b], catalog, ReadableHotels) \subseteq DOMAIN dist
  /\ (\E n \in DOMAIN console : console[n] = "Site generated!") => gpc = "done"

OptionalMembersDefaulted ==
  /\ gpc # "failed"
  /\ \A p \in DOMAIN dist : \A n \in DOMAIN dist[p] : dist[p][n] # Undefined

\* the atoms of the hotel template around the similar hotels
SimilarOpen == "<h2>Similar</h2>"
BookingOpen == "<a href='"

\* the atoms a hotel page shows as its similar hotels
SimilarShown(page) ==
  LET a == CHOOSE n \in DOMAIN page : page[n] = SimilarOpen
      b == CHOOSE n \in DOMAIN page :
             /\ n > a
             /\ page[n] = BookingOpen
             /\ \A k \in (a + 1)..(n - 1) : page[k] # BookingOpen
  IN  SubSeq(page, a + 1, b - 1)

\* the positions of the other hotels of the neighborhood of the hotel at i
Neighbours(hs, i) == {j \in DOMAIN hs : j # i /\ hs[j].neighborhood = hs[i].neighborhood}

\* the similar hotels of the page are those of the hotel at i: at most 3, the
\* first other hotels of its neighborhood in the order of the collection
SimilarOf(page, hs, i) ==
  /\ CardCount(SimilarShown(page)) <= 3
  /\ SimilarShown(page) = CardsAt(hs, FirstOf(Neighbours(hs, i), 3))
  /\ Neighbours(hs, i) # {} => CardCount(SimilarShown(page)) >= 1

\* C15: after a complete run, the page of every hotel H of the collection,
\* dist/hotel/<slug of H>.html, lists as similar at most 3 hotels, each of the
\* neighborhood of H and none H itself: the first such hotels in the order of
\* the collection, and at least one when the neighborhood has another hotel.
SimilarHotelsOfPage ==
  gpc = "done" =>
    \A i \in DOMAIN allHotelsData.hotels :
      SimilarOf(dist[HotelPath(allHotelsData.hotels[i])], allHotelsData.hotels, i)

(***************************************************************************)
(* generate.js on collections made to be sorted: hotels with equal prices, *)
(* equal rooftop ratings and no rooftop rating.                            *)
(***************************************************************************)
MaxGuideHotels == 3

\* a record entered by hand
Entered(tag, cost, bar) ==
  [id |-> <<tag, "-">> \o IdPlaka,
   slug |-> <<tag, "-", "a", "t", "h", "e", "n", "s">>,
   name |-> <<tag>>,
   starRating |-> 3, pricePerNight |-> cost,
   neighborhood |-> IdPlaka, neighborhoodName |-> <<"Plaka">>,
   distanceToAcropolis |-> "5 min",
   hasAcropolisView |-> FALSE, hasRooftopBar |-> bar]

GuideHotels ==
  {Spread(Entered("a", 60, TRUE), [rooftopRating |-> 3]),
   Entered("b", 60, TRUE),
   Spread(Entered("c", 250, TRUE), [rooftopRating |-> 5]),
   Entered("d", 300, FALSE),
   Spread(Entered("e", 250, TRUE), [rooftopRating |-> 3])}

InitGuides ==
  /\ now = 1
  /\ catalog = GenCatalog
  /\ \E hotels \in ListsOf(GuideHotels, MaxGuideHotels) :
       /\ hoodFiles = ListingFiles(GenCatalog, hotels)
       /\ masterFile = <<FreshIndex(hotels)>>
  /\ templates = Templates
  /\ env = ""
  /\ fpc = "done"
  /\ fi = 1
  /\ allHotels = <<>>
  /\ totalHotels = 0
  /\ Idle
  /\ NoTier
  /\ Uncalled

NextGuides == Generate

SpecGuides == InitGuides /\ [][NextGuides]_vars

\* the atoms of a guide page around its hotel cards
GridOpen == "</p></div><div class='hotels-grid'>"
GridClose == "</div></section>"

\* the atoms a guide page shows as its hotels
GuideShown(page) ==
  LET a == CHOOSE n \in DOMAIN page : page[n] = GridOpen
      b == CHOOSE n \in DOMAIN page :
             /\ n > a
             /\ page[n] = GridClose
             /\ \A k \in (a + 1)..(n - 1) : page[k] # GridClose
  IN  SubSeq(page, a + 1, b - 1)

\* j comes before i: by its key, and by its position where the keys are equal
Before(keys, j, i) == keys[j] < keys[i] \/ (keys[j] = keys[i] /\ j < i)

\* the positions I, each once, lowest key first, equal keys in the order of the
\* positions
Ranked(I, keys) ==
  [r \in 1..Cardinality(I) |->
     CHOOSE i \in I : Cardinality({j \in I : Before(keys, j, i)}) = r - 1]

\* the cards of the hotels at the positions I in the order of their keys
CardsRanked(hs, I, keys) ==
  LET order == Ranked(I, keys)
  IN  Flatten([r \in DOMAIN order |-> generateHotelCard(hs[order[r]])])

\* the rooftop rating of a hotel, 0 where it has none
RatingOrZero(h) == IF "rooftopRating" \in DOMAIN h THEN h.rooftopRating ELSE 0

SnapshotUntouched ==
  allHotelsData # <<>> =>
    /\ allHotelsData = masterFile[1]
    /\ neighborhoodsData = catalog
    /\ SitemapPath \in DOMAIN dist =>
         LET entries == dist[SitemapPath]
             hotels == masterFile[1].hotels
         IN  /\ Len(entries) = 5 + Len(catalog) + Len(hotels)
             /\ \A k \in DOMAIN catalog :
                  entries[5 + k].loc = SiteUrl \o <<"athens-hotels/">> \o catalog[k].id
             /\ \A k \in DOMAIN hotels :
                  entries[5 + Len(catalog) + k].loc = SiteUrl \o <<"hotel/">> \o hotels[k].slug

\* the sitemap is written after guides that had to move hotels to sort them
SnapshotWitness ==
  /\ SitemapPath \in DOMAIN dist
  /\ gpc = "done"
  /\ \E i, j \in DOMAIN allHotelsData.hotels :
       /\ i < j
       /\ allHotelsData.hotels[i].pricePerNight < 80
       /\ allHotelsData.hotels[i].pricePerNight > allHotelsData.hotels[j].pricePerNight

\* the atoms that end the address of a link: the rest of a hotel card's and of a
\* neighborhood card's opening tag, and the end of the hotel template's link
LinkEnds ==
  {"' class='hotel-card' data-tier='", "' class='neighborhood-card'><span class='emoji'>",
   "'>"}

\* the last part of the address of the link that opens at position n of a page
LinkTarget(page, n) ==
  LET m == CHOOSE k \in DOMAIN page :
             /\ k > n
             /\ page[k] \in LinkEnds
             /\ \A l \in (n + 1)..(k - 1) : page[l] \notin LinkEnds
  IN  SubSeq(page, n + 1, m - 1)

\* the file a link into a directory of the output leads to
LinkedFile(folder, page, n) == <<folder, LinkTarget(page, n) \o <<".html">> >>

\* C18: after the fetch step and a complete run of generate.js no page holds a
\* broken link: every link /hotel/<slug> of a page leads to a file
\* dist/hotel/<slug>.html, and every link /athens-hotels/<id>, of a neighborhood
\* card or of a hotel page, to a file dist/athens-hotels/<id>.html.
NoBrokenLinks ==
  gpc = "done" =>
    \A p \in PagePaths(dist) : \A n \in DOMAIN dist[p] :
      /\ dist[p][n] = CardOpen => LinkedFile("hotel", dist[p], n) \in DOMAIN dist
      /\ dist[p][n] = HoodCardOpen => LinkedFile("athens-hotels", dist[p], n) \in DOMAIN dist

\* a complete run has written a hotel page that links to its neighborhood and
\* to a similar hotel, and a home page with hotel and neighborhood cards
LinksWitness ==
  /\ gpc = "done"
  /\ \E p \in DOMAIN dist :
       /\ p[1] = "hotel"
       /\ \E n \in DOMAIN dist[p] : dist[p][n] = CardOpen
       /\ \E n \in DOMAIN dist[p] : dist[p][n] = HoodCardOpen
  /\ \E n \in DOMAIN dist[TopPath("index.html")] : dist[TopPath("index.html")][n] = CardOpen
  /\ \E n \in DOMAIN dist[TopPath("index.html")] : dist[TopPath("index.html")][n] = HoodCardOpen

(***************************************************************************)
(* scripts/fetch-hotels.js, fetchWithRetry: one step per turn of its loop. *)
(* What fetch(url, options) comes to is the network's choice.  The waits   *)
(* between the turns (delay) change nothing but the time.                  *)
(***************************************************************************)
MaxRetries == 4

\* what a fetch can come to: a response, ok or not, or a thrown error
OkResponse == [threw |-> FALSE, ok |-> TRUE, status |-> 200]
RateLimited == [threw |-> FALSE, ok |-> FALSE, status |-> 429]
ServerError == [threw |-> FALSE, ok |-> FALSE, status |-> 500]
NetworkError == [threw |-> TRUE, ok |-> FALSE, status |-> 0]

FetchResults == {OkResponse, RateLimited, ServerError, NetworkError}

\* the loop variable after a 429 with no i++ run for it
AfterRateLimitAgain(index) == index

\* the loop variable after a 429: continue runs the i++ of the for statement
AfterRateLimit(index) == index + 1

\* an error is thrown on whatever turn it is caught
LastAttemptAlways(index, budget) == TRUE

\* i === retries - 1
LastAttempt(index, budget) == index = budget - 1

\* the fetch gives an ok response: return res
FetchOk ==
  /\ outcome = Running
  /\ attempt < retries
  /\ requests' = Append(requests, OkResponse)
  /\ outcome' = [how |-> "returned", value |-> <<OkResponse>>]
  /\ UNCHANGED <<retries, attempt, tierVars, starVars, now, dataVars, fetchVars, genVars>>

\* the fetch gives status 429: wait Retry-After seconds, continue
FetchRateLimited ==
  /\ outcome = Running
  /\ attempt < retries
  /\ requests' = Append(requests, RateLimited)
  /\ attempt' = AfterRateLimit(attempt)
  /\ UNCHANGED <<retries, outcome, tierVars, starVars, now, dataVars, fetchVars, genVars>>

\* the fetch gives another status that is not ok: wait, next turn
FetchStatus ==
  /\ outcome = Running
  /\ attempt < retries
  /\ requests' = Append(requests, ServerError)
  /\ attempt' = attempt + 1
  /\ UNCHANGED <<retries, outcome, tierVars, starVars, now, dataVars, fetchVars, genVars>>

\* the fetch throws: rethrow on the last turn, else wait, next turn
FetchThrows ==
  /\ outcome = Running
  /\ attempt < retries
  /\ requests' = Append(requests, NetworkError)
  /\ IF LastAttempt(attempt, retries)
       THEN /\ outcome' = [how |-> "thrown", value |-> <<NetworkError>>]
            /\ attempt' = attempt
       ELSE /\ outcome' = outcome
            /\ attempt' = attempt + 1
  /\ UNCHANGED <<retries, tierVars, starVars, now, dataVars, fetchVars, genVars>>

\* the loop ends: return null
RetriesSpent ==
  /\ outcome = Running
  /\ attempt >= retries
  /\ outcome' = [how |-> "returned", value |-> <<>>]
  /\ UNCHANGED <<retries, attempt, requests, tierVars, starVars, now, dataVars, fetchVars,
                 genVars>>

InitRetry ==
  /\ retries \in 0..MaxRetries
  /\ attempt = 0
  /\ requests = <<>>
  /\ outcome = Running
  /\ rating = 0
  /\ stars = <<>>
  /\ starsEnd = ""
  /\ NothingRun

NextRetry == FetchOk \/ FetchRateLimited \/ FetchStatus \/ FetchThrows \/ RetriesSpent

SpecRetry == InitRetry /\ [][NextRetry]_vars

\* every fetch settles and every delay ends, so a running call takes its next turn
SpecRetryFair == SpecRetry /\ WF_vars(NextRetry)

\* the turns of the loop that have issued a request
Issued == Len(requests)

\* every request so far used one unit of the budget, none was issued after an ok
\* response, and none is issued once the call has ended with Issued requests
BudgetKept ==
  /\ Issued <= retries
  /\ outcome = Running => attempt = Issued
  /\ \A n \in DOMAIN requests : requests[n].ok => n = Issued

\* C19: fetchWithRetry issues at most `retries` requests whatever the responses
\* are (ok, 429, another status that is not ok, a thrown error): every request,
\* one answered with 429 included, uses up one unit of the budget, no request
\* is issued after an ok response, and the call always ends.
RetryBoundedAndEnds ==
  /\ []BudgetKept
  /\ [][Issued' > Issued => ~(\E n \in DOMAIN requests : requests[n].ok)]_vars
  /\ <>(outcome # Running)

\* a call with the default budget of 3 has ended after three 429 responses
RetryWitness ==
  /\ retries = 3
  /\ requests = <<RateLimited, RateLimited, RateLimited>>
  /\ outcome # Running

\* the position of the first ok response, 0 where there is none
FirstOk ==
  IF \E n \in DOMAIN requests : requests[n].ok
    THEN CHOOSE n \in DOMAIN requests :
           requests[n].ok /\ \A m \in 1..(n - 1) : ~requests[m].ok
    ELSE 0

\* C20: fetchWithRetry returns the first ok response if a request within the
\* budget got one; otherwise it throws exactly when the last request of the
\* budget threw, and returns null when the last request got a response that is
\* not ok (or the budget allows no request), whatever the earlier requests came
\* to; it never returns a response that is not ok.
OutcomeDetermined ==
  outcome # Running =>
    /\ IF FirstOk # 0
         THEN outcome = [how |-> "returned", value |-> <<requests[FirstOk]>>]
         ELSE /\ Issued = retries
              /\ IF Issued > 0 /\ requests[Issued].threw
                   THEN outcome = [how |-> "thrown", value |-> <<requests[Issued]>>]
                   ELSE outcome = [how |-> "returned", value |-> <<>>]
    /\ (outcome.how = "returned" /\ outcome.value # <<>>) => outcome.value[1].ok

\* a call has returned null although an earlier request threw
OutcomeWitness ==
  /\ retries = 3
  /\ requests = <<NetworkError, NetworkError, ServerError>>
  /\ outcome = [how |-> "returned", value |-> <<>>]
====
